---- MODULE Spec2Model ----
(***************************************************************************)
(* Deepcap: retrieval-augmented video indexing and question answering.     *)
(*                                                                         *)
(* The module models                                                       *)
(*   - the vector store tables and the operations over them               *)
(*     (LanceDBService, VideoIndexService, RAGChatService), as processes   *)
(*     that interleave at the await points of the code;                    *)
(*   - the pure functions classifyQuery, extractAspectDescriptions and     *)
(*     mergeAdvancedResults, each applied to inputs drawn from bounded     *)
(*     sets.                                                               *)
(* Strings the code inspects character by character are sequences of       *)
(* one-character strings.                                                  *)
(***************************************************************************)
EXTENDS Integers, Sequences, FiniteSets, TLC

VARIABLES
  videos,               \* rows of the 'videos' table
  legacyFrames,         \* rows of the 'frames' table (legacy)
  enhancedFrames,       \* rows of the 'enhanced_frames' table
  videosTable,          \* LanceDBService.videosTable is non-null
  framesTable,          \* LanceDBService.framesTable is non-null
  enhancedFramesTable,  \* LanceDBService.enhancedFramesTable is non-null
  embeddingReady,       \* EmbeddingService.isReady
  nextId,               \* number of uuidv4() video ids handed out so far
  ops,                  \* the requests in flight, one per slot
  classifyCall,         \* one application of classifyQuery
  extractCall,          \* one application of extractAspectDescriptions
  mergeCall,            \* one application of mergeAdvancedResults
  batchRun,             \* one run of analyzeVideoWithParallelBatches
  searchCall,           \* one call of enhancedVectorSearch
  embedCall,            \* one call of embedBatch
  waitCall,             \* one call of waitForActive
  uploadReq,            \* one request that uploads a file to the provider
  globalCall,           \* one global search call
  buildCall,            \* the end of one indexing call: row counts and index build
  chatService,          \* the sessions of one chat service and the calls in flight on them
  retryCall,            \* one call of executeWithRetry
  resolveCall           \* one call of resolveProvider

storeVars == << videos, legacyFrames, enhancedFrames, videosTable, framesTable,
               enhancedFramesTable, embeddingReady, nextId, ops >>

\* the applications of the pure functions, idle while requests are served
callVars == << classifyCall, extractCall, mergeCall, batchRun, searchCall, embedCall, waitCall, uploadReq, globalCall, buildCall, chatService, retryCall, resolveCall >>

vars == << videos, legacyFrames, enhancedFrames, videosTable, framesTable,
           enhancedFramesTable, embeddingReady, nextId, ops,
           classifyCall, extractCall, mergeCall, batchRun, searchCall, embedCall, waitCall, uploadReq, globalCall, buildCall, chatService, retryCall, resolveCall >>

----------------------------------------------------------------------------
(* Generic helpers *)

Range(s) == { s[i] : i \in 1..Len(s) }

Min(a, b) == IF a < b THEN a ELSE b

NoCall == [state |-> "none"]

----------------------------------------------------------------------------
(* Query classifier: RAGChatService.classifyQuery *)

AspectTypes == {"people", "objects", "scene", "audio", "action", "text"}

Keywords_people ==
  << <<"p","e","r","s","o","n">>, <<"p","e","o","p","l","e">>, <<"m","a","n">>, <<"w","o","m","a","n">>,
     <<"g","u","y">>, <<"g","i","r","l">>, <<"b","o","y">>, <<"c","h","i","l","d">>, <<"k","i","d">>,
     <<"g","e","n","d","e","r">>, <<"m","a","l","e">>, <<"f","e","m","a","l","e">>, <<"a","g","e">>,
     <<"o","l","d">>, <<"y","o","u","n","g">>, <<"r","a","c","e">>, <<"e","t","h","n","i","c","i","t","y">>,
     <<"s","k","i","n">>, <<"h","a","i","r">>, <<"w","e","a","r","i","n","g">>,
     <<"c","l","o","t","h","e","s">>, <<"c","l","o","t","h","i","n","g">>, <<"d","r","e","s","s","e","d">>,
     <<"o","u","t","f","i","t">>, <<"e","m","o","t","i","o","n">>,
     <<"e","x","p","r","e","s","s","i","o","n">>, <<"f","a","c","e">>, <<"f","a","c","i","a","l">>,
     <<"l","o","o","k","i","n","g">>, <<"a","p","p","e","a","r","a","n","c","e">>, <<"w","h","o">>,
     <<"s","o","m","e","b","o","d","y">>, <<"s","o","m","e","o","n","e">>, <<"a","n","y","b","o","d","y">>,
     <<"a","n","y","o","n","e">>, <<"h","e">>, <<"s","h","e">>, <<"t","h","e","y">>,
     <<"r","o","b","b","e","r">>, <<"r","o","b","b","e","r","s">>, <<"t","h","i","e","f">>,
     <<"t","h","i","e","v","e","s">>, <<"c","r","i","m","i","n","a","l">>,
     <<"c","r","i","m","i","n","a","l","s">>, <<"p","e","r","p","e","t","r","a","t","o","r">>,
     <<"p","e","r","p","e","t","r","a","t","o","r","s">>, <<"a","t","t","a","c","k","e","r">>,
     <<"a","t","t","a","c","k","e","r","s">>, <<"s","u","s","p","e","c","t">>,
     <<"s","u","s","p","e","c","t","s">>, <<"a","s","s","a","i","l","a","n","t">>,
     <<"b","u","r","g","l","a","r">>, <<"b","u","r","g","l","a","r","s">>, <<"v","i","c","t","i","m">>,
     <<"v","i","c","t","i","m","s">>, <<"t","a","r","g","e","t">>, <<"h","o","s","t","a","g","e">>,
     <<"p","o","l","i","c","e">>, <<"o","f","f","i","c","e","r">>, <<"o","f","f","i","c","e","r","s">>,
     <<"c","o","p">>, <<"c","o","p","s">>, <<"s","e","c","u","r","i","t","y">>, <<"g","u","a","r","d">>,
     <<"g","u","a","r","d","s">>, <<"a","u","t","h","o","r","i","t","y">>,
     <<"a","u","t","h","o","r","i","t","i","e","s">>, <<"w","i","t","n","e","s","s">>,
     <<"w","i","t","n","e","s","s","e","s">>, <<"b","y","s","t","a","n","d","e","r">>,
     <<"b","y","s","t","a","n","d","e","r","s">>, <<"e","m","p","l","o","y","e","e">>,
     <<"s","t","a","f","f">>, <<"w","o","r","k","e","r">>, <<"c","u","s","t","o","m","e","r">>,
     <<"c","u","s","t","o","m","e","r","s">>, <<"h","o","w"," ","m","a","n","y">>, <<"c","o","u","n","t">>,
     <<"n","u","m","b","e","r">>, <<"t","o","t","a","l">> >>

Keywords_audio ==
  << <<"s","a","y">>, <<"s","a","i","d">>, <<"s","p","e","a","k">>, <<"s","p","o","k","e">>,
     <<"t","a","l","k">>, <<"t","a","l","k","i","n","g">>, <<"v","o","i","c","e">>, <<"h","e","a","r">>,
     <<"s","o","u","n","d">>, <<"n","o","i","s","e">>, <<"m","u","s","i","c">>, <<"s","o","n","g">>,
     <<"d","i","a","l","o","g","u","e">>, <<"c","o","n","v","e","r","s","a","t","i","o","n">>,
     <<"w","o","r","d">>, <<"l","i","s","t","e","n">>, <<"a","u","d","i","o">>, <<"s","p","e","e","c","h">>,
     <<"m","e","n","t","i","o","n">>, <<"t","e","l","l">>, <<"t","o","l","d">>, <<"a","s","k">>,
     <<"a","s","k","e","d">>, <<"s","h","o","u","t">>, <<"w","h","i","s","p","e","r">>, <<"s","i","n","g">>,
     <<"l","a","n","g","u","a","g","e">>, <<"a","c","c","e","n","t">>, <<"t","o","n","e">> >>

Keywords_objects ==
  << <<"o","b","j","e","c","t">>, <<"t","h","i","n","g">>, <<"i","t","e","m">>,
     <<"p","r","o","d","u","c","t">>, <<"b","r","a","n","d">>, <<"d","e","v","i","c","e">>,
     <<"t","o","o","l">>, <<"c","a","r">>, <<"v","e","h","i","c","l","e">>, <<"p","h","o","n","e">>,
     <<"c","o","m","p","u","t","e","r">>, <<"t","a","b","l","e">>, <<"c","h","a","i","r">>,
     <<"f","u","r","n","i","t","u","r","e">>, <<"f","o","o","d">>, <<"d","r","i","n","k">>,
     <<"b","o","t","t","l","e">>, <<"b","a","g">>, <<"b","o","x">>, <<"b","o","o","k">>,
     <<"w","h","a","t"," ","i","s">>, <<"w","h","a","t"," ","a","r","e">> >>

Keywords_scene ==
  << <<"w","h","e","r","e">>, <<"l","o","c","a","t","i","o","n">>, <<"p","l","a","c","e">>,
     <<"s","e","t","t","i","n","g">>, <<"e","n","v","i","r","o","n","m","e","n","t">>,
     <<"b","a","c","k","g","r","o","u","n","d">>, <<"i","n","d","o","o","r">>,
     <<"o","u","t","d","o","o","r">>, <<"r","o","o","m">>, <<"b","u","i","l","d","i","n","g">>,
     <<"s","t","r","e","e","t">>, <<"c","i","t","y">>, <<"n","a","t","u","r","e">>, <<"l","i","g","h","t">>,
     <<"l","i","g","h","t","i","n","g">>, <<"d","a","r","k">>, <<"b","r","i","g","h","t">>,
     <<"w","e","a","t","h","e","r">>, <<"t","i","m","e"," ","o","f"," ","d","a","y">>,
     <<"a","t","m","o","s","p","h","e","r","e">>, <<"m","o","o","d">>, <<"c","a","m","e","r","a">>,
     <<"s","h","o","t">>, <<"a","n","g","l","e">> >>

Keywords_text ==
  << <<"t","e","x","t">>, <<"r","e","a","d">>, <<"w","r","i","t","t","e","n">>, <<"w","r","i","t","e">>,
     <<"s","i","g","n">>, <<"t","i","t","l","e">>, <<"s","u","b","t","i","t","l","e">>,
     <<"c","a","p","t","i","o","n">>, <<"l","a","b","e","l">>, <<"d","i","s","p","l","a","y">>,
     <<"s","c","r","e","e","n">>, <<"s","h","o","w">>, <<"l","e","t","t","e","r">>, <<"w","o","r","d">> >>

Keywords_action ==
  << <<"d","o">>, <<"d","o","i","n","g">>, <<"h","a","p","p","e","n">>,
     <<"h","a","p","p","e","n","i","n","g">>, <<"a","c","t","i","o","n">>, <<"e","v","e","n","t">>,
     <<"a","c","t","i","v","i","t","y">>, <<"m","o","v","e">>, <<"m","o","v","i","n","g">>,
     <<"w","a","l","k">>, <<"r","u","n">>, <<"s","i","t">>, <<"s","t","a","n","d">>, <<"p","i","c","k">>,
     <<"p","u","t">>, <<"o","p","e","n">>, <<"c","l","o","s","e">>, <<"s","t","a","r","t">>,
     <<"s","t","o","p">>, <<"b","e","g","i","n">>, <<"e","n","d">>, <<"t","h","e","n">>,
     <<"n","e","x","t">> >>

\* ASPECT_KEYWORDS in the insertion order Object.entries walks it
AspectOrder == << "people", "audio", "objects", "scene", "text", "action" >>

ASPECT_KEYWORDS ==
  [ a \in AspectTypes |->
      CASE a = "people"  -> Keywords_people
        [] a = "audio"   -> Keywords_audio
        [] a = "objects" -> Keywords_objects
        [] a = "scene"   -> Keywords_scene
        [] a = "text"    -> Keywords_text
        [] a = "action"  -> Keywords_action ]

UpperLetters ==
  << "A","B","C","D","E","F","G","H","I","J","K","L","M",
     "N","O","P","Q","R","S","T","U","V","W","X","Y","Z" >>

LowerLetters ==
  << "a","b","c","d","e","f","g","h","i","j","k","l","m",
     "n","o","p","q","r","s","t","u","v","w","x","y","z" >>

\* String.prototype.toLowerCase
toLowerCase(s) ==
  [ i \in 1..Len(s) |->
      IF \E k \in 1..26 : UpperLetters[k] = s[i]
        THEN LowerLetters[CHOOSE k \in 1..26 : UpperLetters[k] = s[i]]
        ELSE s[i] ]

\* String.prototype.includes
includes(s, kw) ==
  \E i \in 0..(Len(s) - Len(kw)) : \A j \in 1..Len(kw) : s[i + j] = kw[j]

\* an aspect counted once however many of its keywords occur
MatchCount_Once(queryLower, keywords) ==
  IF \E k \in 1..Len(keywords) : includes(queryLower, keywords[k]) THEN 1 ELSE 0

\* keywords.filter((kw) => queryLower.includes(kw)).length
MatchCount(queryLower, keywords) ==
  Cardinality({ k \in 1..Len(keywords) : includes(queryLower, keywords[k]) })

\* confidence is a rational; it is kept as a numerator over ConfidenceDen
ConfidenceDen == 30

FallbackConfidence == 9      \* 0.3

FallbackAspects == << "people", "objects", "scene", "audio", "action", "text" >>

RECURSIVE ClassifyLoop(_, _, _, _)
\* the for..of loop over Object.entries(ASPECT_KEYWORDS)
ClassifyLoop(queryLower, i, matchedAspects, totalMatches) ==
  IF i > Len(AspectOrder)
    THEN [matchedAspects |-> matchedAspects, totalMatches |-> totalMatches]
    ELSE LET matches == MatchCount(queryLower, ASPECT_KEYWORDS[AspectOrder[i]])
         IN  IF matches > 0
               THEN ClassifyLoop(queryLower, i + 1,
                                 Append(matchedAspects, AspectOrder[i]),
                                 totalMatches + matches)
               ELSE ClassifyLoop(queryLower, i + 1, matchedAspects, totalMatches)

\* classifyQuery without the search-all fallback
classifyQuery_NoFallback(query) ==
  LET queryLower == toLowerCase(query)
      r == ClassifyLoop(queryLower, 1, << >>, 0)
  IN  [aspects |-> r.matchedAspects,
       confidence |-> Min((r.totalMatches * ConfidenceDen) \div 3,
                          ConfidenceDen)]

classifyQuery(query) ==
  LET queryLower == toLowerCase(query)
      r == ClassifyLoop(queryLower, 1, << >>, 0)
  IN  IF Len(r.matchedAspects) = 0
        THEN [aspects |-> FallbackAspects, confidence |-> FallbackConfidence]
        ELSE [aspects |-> r.matchedAspects,
              \* Math.min(totalMatches / 3, 1.0)
              confidence |-> Min((r.totalMatches * ConfidenceDen) \div 3,
                                 ConfidenceDen)]

----------------------------------------------------------------------------
(* Inputs of the classifier *)

MaxQueryWords == 2

Words ==
  { <<"w","h","o">>,
    <<"W","h","e","r","e">>,
    <<"s","a","i","d">>,
    <<"S","H","O","W">>,
    <<"a","s","d","k","j">>,
    <<"q","w","e","r">>,
    <<"c","a","r">>,
    <<"t","h","e">>,
    <<"r","u","n">>,
    <<"h","o","w">>,
    <<"m","a","n","y">>,
    <<"x","y","z">> }

RECURSIVE JoinWords(_)
JoinWords(ws) ==
  IF Len(ws) = 0 THEN << >>
  ELSE IF Len(ws) = 1 THEN ws[1]
  ELSE ws[1] \o << " " >> \o JoinWords(Tail(ws))

Queries ==
  { JoinWords(ws) : ws \in UNION { [1..n -> Words] : n \in 0..MaxQueryWords } }

----------------------------------------------------------------------------
(* Specification of the classifier applied to one query *)

StoreIdle ==
  /\ videos = {}
  /\ legacyFrames = {}
  /\ enhancedFrames = {}
  /\ videosTable = FALSE
  /\ framesTable = FALSE
  /\ enhancedFramesTable = FALSE
  /\ embeddingReady = FALSE
  /\ nextId = 0
  /\ ops = << >>

InitClassify ==
  /\ StoreIdle
  /\ classifyCall \in { [state |-> "called", query |-> q] : q \in Queries }
  /\ extractCall = NoCall
  /\ mergeCall = NoCall
  /\ batchRun = NoCall
  /\ searchCall = NoCall
  /\ embedCall = NoCall
  /\ waitCall = NoCall
  /\ uploadReq = NoCall
  /\ globalCall = NoCall
  /\ buildCall = NoCall
  /\ chatService = NoCall
  /\ retryCall = NoCall
  /\ resolveCall = NoCall

ClassifyReturn ==
  /\ classifyCall.state = "called"
  /\ classifyCall' = [state |-> "returned", query |-> classifyCall.query,
                      result |-> classifyQuery(classifyCall.query)]
  /\ UNCHANGED << storeVars, extractCall, mergeCall, batchRun, searchCall, embedCall, waitCall, uploadReq, globalCall, buildCall, chatService, retryCall, resolveCall >>

NextClassify == ClassifyReturn

SpecClassify == InitClassify /\ [][NextClassify]_vars

\* some keyword of some aspect list occurs in the lower-cased query
KeywordOccurs(query) ==
  \E a \in AspectTypes : \E k \in 1..Len(ASPECT_KEYWORDS[a]) :
      includes(toLowerCase(query), ASPECT_KEYWORDS[a][k])

\* C4: classifyQuery never returns an empty aspect set, and a query in which
\* no keyword of any aspect occurs gets all six aspect types with
\* confidence exactly 0.3.
C4_ClassifyNeverEmpty ==
  classifyCall.state = "returned" =>
    /\ Len(classifyCall.result.aspects) > 0
    /\ ~KeywordOccurs(classifyCall.query) =>
         /\ Range(classifyCall.result.aspects) = AspectTypes
         /\ Len(classifyCall.result.aspects) = 6
         /\ classifyCall.result.confidence * 10 = 3 * ConfidenceDen

\* a query without any keyword ("asdkj qwer") has been classified
C4_Witness ==
  /\ classifyCall.state = "returned"
  /\ classifyCall.query = JoinWords(<< <<"a","s","d","k","j">>, <<"q","w","e","r">> >>)
  /\ ~KeywordOccurs(classifyCall.query)

\* the keyword entries, over all aspect lists, that occur in the lower-cased query
KeywordMatches(query) ==
  UNION { { << a, k >> : k \in { n \in 1..Len(ASPECT_KEYWORDS[a]) :
                                   includes(toLowerCase(query), ASPECT_KEYWORDS[a][n]) } } :
          a \in AspectTypes }

\* C20: for a query in which a keyword occurs, classifyQuery returns exactly
\* the aspect types with an occurring keyword, each once, and the confidence
\* min(total / 3, 1), total being the number of occurring keyword entries:
\* above 0, at most 1, and 1 when total is 3 or more.
C20_MatchedAspectsAndConfidence ==
  (classifyCall.state = "returned" /\ KeywordOccurs(classifyCall.query)) =>
    LET result == classifyCall.result
        total == Cardinality(KeywordMatches(classifyCall.query))
    IN  /\ Range(result.aspects) = { m[1] : m \in KeywordMatches(classifyCall.query) }
        /\ Len(result.aspects) = Cardinality(Range(result.aspects))
        /\ 3 * result.confidence = Min(total * ConfidenceDen, 3 * ConfidenceDen)
        /\ result.confidence > 0
        /\ result.confidence <= ConfidenceDen
        /\ total >= 3 => result.confidence = ConfidenceDen

\* a query with keywords of two aspects, one aspect with two occurring
\* keywords: confidence 1
C20_Witness ==
  /\ classifyCall.state = "returned"
  /\ Cardinality(KeywordMatches(classifyCall.query)) >= 3
  /\ Len(classifyCall.result.aspects) = 2
  /\ \E m, n \in KeywordMatches(classifyCall.query) : m[1] = n[1] /\ m[2] # n[2]
  /\ classifyCall.result.confidence = ConfidenceDen

\* a query with a single occurring keyword: one aspect, confidence 1/3
C20_WitnessOne ==
  /\ classifyCall.state = "returned"
  /\ Cardinality(KeywordMatches(classifyCall.query)) = 1
  /\ Len(classifyCall.result.aspects) = 1
  /\ 3 * classifyCall.result.confidence = ConfidenceDen

----------------------------------------------------------------------------
(* Timestamps *)

Digits == << "0","1","2","3","4","5","6","7","8","9" >>

IsDigit(c) == \E d \in 1..10 : Digits[d] = c

DigitValue(c) == (CHOOSE d \in 1..10 : Digits[d] = c) - 1

\* NaN, distinct from every number a timestamp part can yield
NaN == -1

RECURSIVE SplitFrom(_, _, _)
\* String.prototype.split(':') from position i on, cur is the part being read
SplitFrom(s, i, cur) ==
  IF i > Len(s) THEN << cur >>
  ELSE IF s[i] = ":" THEN << cur >> \o SplitFrom(s, i + 1, << >>)
  ELSE SplitFrom(s, i + 1, Append(cur, s[i]))

Split(s) == SplitFrom(s, 1, << >>)

RECURSIVE ParseDigits(_, _, _)
ParseDigits(s, i, acc) ==
  IF i > Len(s) \/ ~IsDigit(s[i]) THEN acc
  ELSE ParseDigits(s, i + 1, acc * 10 + DigitValue(s[i]))

\* parseInt(s, 10): the value of the leading run of digits, NaN without one
ParseInt(s) ==
  IF Len(s) = 0 \/ ~IsDigit(s[1]) THEN NaN ELSE ParseDigits(s, 1, 0)

\* Number(s) of a part of a timestamp: digits only, the empty string is 0
ToNumber(s) ==
  IF Len(s) = 0 THEN 0
  ELSE IF \A i \in 1..Len(s) : IsDigit(s[i]) THEN ParseDigits(s, 1, 0)
  ELSE NaN

\* a * m + b in floating point, where NaN is absorbing
MulAdd(a, m, b) == IF a = NaN \/ b = NaN THEN NaN ELSE a * m + b

\* OpenAIVideoAnalyzerService.parseTimestampToSeconds
parseTimestampToSeconds(timestamp) ==
  LET parts == Split(timestamp)
  IN  IF Len(parts) = 2
        THEN MulAdd(ParseInt(parts[1]), 60, ParseInt(parts[2]))
        ELSE 0

\* VideoIndexService.parseTimestamp
parseTimestamp(timestamp) ==
  LET parts == [ i \in 1..Len(Split(timestamp)) |-> ToNumber(Split(timestamp)[i]) ]
  IN  IF Len(parts) = 2 THEN MulAdd(parts[1], 60, parts[2])
      ELSE IF Len(parts) = 3
        THEN MulAdd(MulAdd(parts[1], 60, parts[2]), 60, parts[3])
      ELSE 0

----------------------------------------------------------------------------
(* Batch merge: OpenAIVideoAnalyzerService.mergeAdvancedResults *)

NoValue == "undefined"

\* an optional tokenUsage: absent, or the two counters
NoUsage == [present |-> FALSE, inputTokens |-> 0, outputTokens |-> 0]

Usage(i, o) == [present |-> TRUE, inputTokens |-> i, outputTokens |-> o]

\* OpenAIVideoAnalyzerService.parseConfidence
parseConfidence(confidence) ==
  IF confidence \in {"Low", "Medium", "High"} THEN confidence ELSE "Medium"

confidenceOrder == << "Low", "Medium", "High" >>

\* Array.prototype.indexOf, zero based, -1 when absent
indexOf(arr, x) ==
  IF \E i \in 1..Len(arr) : arr[i] = x
    THEN (CHOOSE i \in 1..Len(arr) :
            arr[i] = x /\ \A j \in 1..(i - 1) : arr[j] # x) - 1
    ELSE -1

RECURSIVE ConcatFrames(_)
\* allFrames.push(...result.frames) for every result
ConcatFrames(results) ==
  IF Len(results) = 0 THEN << >>
  ELSE results[1].frames \o ConcatFrames(Tail(results))

RECURSIVE SumTokens(_, _)
\* total += result.tokenUsage.<field> || 0 over the results that have usage
SumTokens(results, field) ==
  IF Len(results) = 0 THEN 0
  ELSE (IF results[1].tokenUsage.present
          THEN results[1].tokenUsage[field] ELSE 0)
       + SumTokens(Tail(results), field)

\* the comparator (a, b) => timeA - timeB; a NaN result counts as 0
CompareFrames(a, b) ==
  LET timeA == parseTimestampToSeconds(a.timestamp)
      timeB == parseTimestampToSeconds(b.timestamp)
  IN  IF timeA = NaN \/ timeB = NaN THEN 0 ELSE timeA - timeB

RECURSIVE InsertFrame(_, _)
\* x goes behind every element that does not compare greater than it
InsertFrame(sorted, x) ==
  IF Len(sorted) = 0 THEN << x >>
  ELSE IF CompareFrames(sorted[1], x) > 0 THEN << x >> \o sorted
  ELSE << sorted[1] >> \o InsertFrame(Tail(sorted), x)

RECURSIVE SortFrames(_, _)
\* Array.prototype.sort with the comparator above (a stable sort)
SortFrames(todo, sorted) ==
  IF Len(todo) = 0 THEN sorted
  ELSE SortFrames(Tail(todo), InsertFrame(sorted, todo[1]))

RECURSIVE ReduceConfidence_Highest(_, _)
\* the reduction with the comparison turned round
ReduceConfidence_Highest(confidences, lowest) ==
  IF Len(confidences) = 0 THEN lowest
  ELSE ReduceConfidence_Highest(
         Tail(confidences),
         IF indexOf(confidenceOrder, confidences[1]) > indexOf(confidenceOrder, lowest)
           THEN confidences[1] ELSE lowest)

RECURSIVE ReduceConfidence(_, _)
\* confidences.reduce(..., 'High')
ReduceConfidence(confidences, lowest) ==
  IF Len(confidences) = 0 THEN lowest
  ELSE ReduceConfidence(
         Tail(confidences),
         IF indexOf(confidenceOrder, confidences[1]) < indexOf(confidenceOrder, lowest)
           THEN confidences[1] ELSE lowest)

DefaultSummary == "Video analysis completed using parallel batch processing."

mergeAdvancedResults(results) ==
  LET allFrames == SortFrames(ConcatFrames(results), << >>)
      totalInputTokens == SumTokens(results, "inputTokens")
      totalOutputTokens == SumTokens(results, "outputTokens")
      summaries == SelectSeq([ i \in 1..Len(results) |-> results[i].summary ],
                             LAMBDA s : s # "" /\ s # "No summary provided")
      confidences == [ i \in 1..Len(results) |-> results[i].confidence ]
  IN  [ \* summaries.join(' '), kept as the list of the joined summaries
        summary |-> IF Len(summaries) > 0 THEN summaries ELSE << DefaultSummary >>,
        frames |-> allFrames,
        confidence |-> ReduceConfidence(confidences, "High"),
        tokenUsage |-> IF totalInputTokens > 0
                         THEN Usage(totalInputTokens, totalOutputTokens)
                         ELSE NoUsage ]

----------------------------------------------------------------------------
(* Inputs of the merge: the results parseAdvancedExtractionResponse returns *)

MaxBatches == 3

MaxMergeFrames == 2

MergeTimestamps ==
  { <<"0","0",":","0","0">>, <<"0","0",":","0","5">>, <<"0","0",":","1","0">>, <<"0","1",":","0","0",":","0","5">> }

\* summary, confidence and token usage of one batch result
BatchMetas ==
  { [summary |-> "s1", confidence |-> parseConfidence("High"), tokenUsage |-> NoUsage],
    [summary |-> "No summary provided", confidence |-> parseConfidence("Low"),
     tokenUsage |-> Usage(5, 3)],
    [summary |-> "s2", confidence |-> parseConfidence(NoValue),
     tokenUsage |-> Usage(0, 4)] }

MergeFrames == { [timestamp |-> t] : t \in MergeTimestamps }

\* the ways to cut a list of n frames into k consecutive (possibly empty) batches
Cuts(n, k) ==
  { c \in [0..k -> 0..n] :
      c[0] = 0 /\ c[k] = n /\ \A i \in 1..k : c[i - 1] <= c[i] }

\* the batch results: frames fs cut at c, batch i carrying metas[i]
BatchResults(k, fs, c, metas) ==
  [ i \in 1..k |->
      [summary |-> metas[i].summary,
       frames |-> SubSeq(fs, c[i - 1] + 1, c[i]),
       confidence |-> metas[i].confidence,
       tokenUsage |-> metas[i].tokenUsage] ]

InitMerge ==
  /\ StoreIdle
  /\ classifyCall = NoCall
  /\ extractCall = NoCall
  /\ batchRun = NoCall
  /\ searchCall = NoCall
  /\ embedCall = NoCall
  /\ waitCall = NoCall
  /\ uploadReq = NoCall
  /\ globalCall = NoCall
  /\ buildCall = NoCall
  /\ chatService = NoCall
  /\ retryCall = NoCall
  /\ resolveCall = NoCall
  /\ \E k \in 0..MaxBatches, n \in 0..MaxMergeFrames :
       \E fs \in [1..n -> MergeFrames], metas \in [1..k -> BatchMetas],
          c \in Cuts(n, k) :
         mergeCall = [state |-> "called", results |-> BatchResults(k, fs, c, metas)]

MergeReturn ==
  /\ mergeCall.state = "called"
  /\ mergeCall' = [state |-> "returned", results |-> mergeCall.results,
                   result |-> mergeAdvancedResults(mergeCall.results)]
  /\ UNCHANGED << storeVars, classifyCall, extractCall, batchRun, searchCall, embedCall, waitCall, uploadReq, globalCall, buildCall, chatService, retryCall, resolveCall >>

NextMerge == MergeReturn

SpecMerge == InitMerge /\ [][NextMerge]_vars

\* how often frame f occurs in the list fs
Occurrences(fs, f) == Cardinality({ i \in 1..Len(fs) : fs[i] = f })

\* C9: the merged list holds every frame of every batch exactly once and is
\* in ascending order of the timestamp in seconds, for MM:SS and HH:MM:SS.
C9_MergedFramesSorted ==
  mergeCall.state = "returned" =>
    LET merged == mergeCall.result.frames
        given == ConcatFrames(mergeCall.results)
    IN  /\ Len(merged) = Len(given)
        /\ \A f \in MergeFrames : Occurrences(merged, f) = Occurrences(given, f)
        /\ \A i \in 1..(Len(merged) - 1) :
             parseTimestamp(merged[i].timestamp) <= parseTimestamp(merged[i + 1].timestamp)

ConfidenceRank(c) == CASE c = "Low" -> 0 [] c = "Medium" -> 1 [] c = "High" -> 2

RECURSIVE Reverse(_)
Reverse(s) == IF Len(s) = 0 THEN << >> ELSE Append(Reverse(Tail(s)), s[1])

\* C10: for a non-empty list of batch results the merged confidence is the
\* lowest batch confidence under Low < Medium < High, whatever the order of
\* the batches.
C10_LowestConfidence ==
  (mergeCall.state = "returned" /\ Len(mergeCall.results) > 0) =>
    LET levels == { mergeCall.results[i].confidence : i \in 1..Len(mergeCall.results) }
    IN  /\ mergeCall.result.confidence \in levels
        /\ \A c \in levels :
             ConfidenceRank(mergeCall.result.confidence) <= ConfidenceRank(c)
        /\ mergeAdvancedResults(Reverse(mergeCall.results)).confidence
             = mergeCall.result.confidence

\* three batches with confidences High, Low, Medium have been merged
C10_Witness ==
  /\ mergeCall.state = "returned"
  /\ Len(mergeCall.results) = 3
  /\ mergeCall.results[1].confidence = "High"
  /\ mergeCall.results[2].confidence = "Low"
  /\ mergeCall.results[3].confidence = "Medium"
  /\ mergeCall.result.confidence = "Low"

----------------------------------------------------------------------------
(* Aspect extractor: VideoIndexService.extractAspectDescriptions            *)
(*                                                                         *)
(* A string field that is undefined and one that is '' behave alike in the *)
(* code (both are falsy), so an absent string is "".  An optional list or  *)
(* object carries a flag 'present'.  A content string is the sequence of   *)
(* the pieces it is concatenated from; '' is the empty sequence.           *)

Opt(cond, part) == IF cond THEN << part >> ELSE << >>

RECURSIVE Join(_, _)
\* parts.join(sep), every part being a sequence of pieces
Join(parts, sep) ==
  IF Len(parts) = 0 THEN << >>
  ELSE IF Len(parts) = 1 THEN parts[1]
  ELSE parts[1] \o << sep >> \o Join(Tail(parts), sep)

\* String.prototype.toUpperCase on a role
toUpperCase(role) ==
  CASE role = "perpetrator" -> "PERPETRATOR"
    [] role = "victim" -> "VICTIM"
    [] role = "witness" -> "WITNESS"
    [] OTHER -> role

\* the parts array of one person in buildPeopleDescription
PersonParts(person) ==
     Opt(person.role # "" /\ person.role # "unknown",
         << "[", toUpperCase(person.role), "]" >>)
  \o Opt(person.threatLevel # "" /\ person.threatLevel # "none",
         << "(threat: ", person.threatLevel, ")" >>)
  \o Opt(person.gender # "", << person.gender >>)
  \o Opt(person.apparentAge # "", << person.apparentAge >>)
  \o Opt(person.apparentEthnicity # "", << "appears ", person.apparentEthnicity >>)
  \o Opt(person.physicalBuild # "", << person.physicalBuild >>)
  \o Opt(Len(person.distinguishingFeatures) > 0,
         << "with " >> \o Join([ i \in 1..Len(person.distinguishingFeatures) |->
                                   << person.distinguishingFeatures[i] >> ], ", "))
  \o Opt(Len(person.clothing) > 0,
         << "wearing " >> \o Join([ i \in 1..Len(person.clothing) |->
                                      << person.clothing[i] >> ], ", "))
  \o Opt(person.facialExpression # "", << "expression: ", person.facialExpression >>)
  \o Opt(person.emotion # "", << "emotion: ", person.emotion >>)
  \o Opt(person.bodyLanguage # "", << "body language: ", person.bodyLanguage >>)
  \o Opt(person.action # "", << "action: ", person.action >>)
  \o Opt(person.interactionWith # "", << "interacting with: ", person.interactionWith >>)
  \o Opt(person.position # "", << "positioned ", person.position >>)

\* reading a property of a null entry raises a TypeError
PeopleThrows(people) == \E i \in 1..Len(people) : people[i].null

PersonIndex == << "Person 1", "Person 2", "Person 3", "Person 4" >>

buildPeopleDescription(timestamp, people) ==
  LET descriptions ==
        [ index \in 1..Len(people) |->
            << IF people[index].id # "" THEN people[index].id ELSE PersonIndex[index],
               ": " >> \o Join(PersonParts(people[index]), ", ") ]
  IN  << "At ", timestamp, ": " >> \o Join(descriptions, ". ")

buildObjectsDescription(timestamp, objects) ==
  LET descriptions ==
        [ i \in 1..Len(objects) |->
            Join(   << << objects[i].name >> >>
                 \o Opt(objects[i].color # "", << objects[i].color >>)
                 \o Opt(objects[i].brand # "", << "(", objects[i].brand, ")" >>)
                 \o Opt(objects[i].state # "", << objects[i].state >>)
                 \o Opt(objects[i].description # "", << "- ", objects[i].description >>),
                 " ") ]
  IN  << "At ", timestamp, ": Objects visible - " >> \o Join(descriptions, ", ")

SceneParts(scene) ==
     Opt(scene.locationType # "", << scene.locationType >>)
  \o Opt(scene.specificLocation # "", << scene.specificLocation >>)
  \o Opt(scene.lighting # "", << scene.lighting, " lighting" >>)
  \o Opt(scene.weather # "", << scene.weather >>)
  \o Opt(scene.timeOfDay # "", << scene.timeOfDay >>)
  \o Opt(scene.cameraAngle # "", << scene.cameraAngle, " shot" >>)
  \o Opt(scene.mood # "", << scene.mood, " atmosphere" >>)

buildSceneDescription(timestamp, scene) ==
  << "At ", timestamp, ": Scene - " >> \o Join(SceneParts(scene), ", ")

AudioParts(audio) ==
     Opt(Len(audio.speech) > 0,
         Join([ i \in 1..Len(audio.speech) |->
                  << IF audio.speech[i].speaker # "" THEN audio.speech[i].speaker
                                                     ELSE "Someone",
                     " says: ", audio.speech[i].text >>
                  \o (IF audio.speech[i].tone # ""
                        THEN << " (", audio.speech[i].tone, " tone)" >> ELSE << >>) ],
              ". "))
  \o Opt(audio.music # "", << "Music: ", audio.music >>)
  \o Opt(Len(audio.sounds) > 0,
         << "Sounds: " >> \o Join([ i \in 1..Len(audio.sounds) |-> << audio.sounds[i] >> ],
                                  ", "))

buildAudioDescription(timestamp, audio) ==
  IF Len(AudioParts(audio)) = 0 THEN << >>
  ELSE << "At ", timestamp, ": " >> \o Join(AudioParts(audio), ". ")

buildTextDescription(timestamp, textItems) ==
  LET descriptions ==
        [ i \in 1..Len(textItems) |->
            << textItems[i].type, ": ", textItems[i].text >>
            \o (IF textItems[i].position # ""
                  THEN << " (", textItems[i].position, ")" >> ELSE << >>) ]
  IN  << "At ", timestamp, ": Text on screen - " >> \o Join(descriptions, ", ")

\* one pushed EnhancedFrameRecordBase; the uuid of a record is its place n in
\* the list of its video, the metadata blob is left out
AspectRecord(videoId, n, frame, aspectType, content) ==
  [ id |-> << videoId, n >>,
    videoId |-> videoId,
    timestamp |-> frame.timestamp,
    timestampSeconds |-> parseTimestamp(frame.timestamp),
    aspectType |-> aspectType,
    content |-> content ]

\* the action block nested inside the scene block
FrameAspects_ActionInScene(frame) ==
     Opt(frame.people.present /\ Len(frame.people.items) > 0,
         [aspectType |-> "people",
          content |-> buildPeopleDescription(frame.timestamp, frame.people.items)])
  \o Opt(frame.objects.present /\ Len(frame.objects.items) > 0,
         [aspectType |-> "objects",
          content |-> buildObjectsDescription(frame.timestamp, frame.objects.items)])
  \o Opt(frame.scene.present,
         [aspectType |-> "scene",
          content |-> buildSceneDescription(frame.timestamp, frame.scene)])
  \o Opt(frame.audio.present
           /\ Len(buildAudioDescription(frame.timestamp, frame.audio)) > 0,
         [aspectType |-> "audio",
          content |-> buildAudioDescription(frame.timestamp, frame.audio)])
  \o Opt(frame.textOnScreen.present /\ Len(frame.textOnScreen.items) > 0,
         [aspectType |-> "text",
          content |-> buildTextDescription(frame.timestamp, frame.textOnScreen.items)])
  \o Opt(frame.scene.present /\ frame.actionDescription # "",
         [aspectType |-> "action",
          content |-> << "At ", frame.timestamp, ": ", frame.actionDescription >>])

\* the records one iteration of the loop pushes, in the order of the code
FrameAspects(frame) ==
     Opt(frame.people.present /\ Len(frame.people.items) > 0
           /\ Len(buildPeopleDescription(frame.timestamp, frame.people.items)) > 0,
         [aspectType |-> "people",
          content |-> buildPeopleDescription(frame.timestamp, frame.people.items)])
  \o Opt(frame.objects.present /\ Len(frame.objects.items) > 0
           /\ Len(buildObjectsDescription(frame.timestamp, frame.objects.items)) > 0,
         [aspectType |-> "objects",
          content |-> buildObjectsDescription(frame.timestamp, frame.objects.items)])
  \o Opt(frame.scene.present
           /\ Len(buildSceneDescription(frame.timestamp, frame.scene)) > 0,
         [aspectType |-> "scene",
          content |-> buildSceneDescription(frame.timestamp, frame.scene)])
  \o Opt(frame.audio.present
           /\ Len(buildAudioDescription(frame.timestamp, frame.audio)) > 0,
         [aspectType |-> "audio",
          content |-> buildAudioDescription(frame.timestamp, frame.audio)])
  \o Opt(frame.textOnScreen.present /\ Len(frame.textOnScreen.items) > 0
           /\ Len(buildTextDescription(frame.timestamp, frame.textOnScreen.items)) > 0,
         [aspectType |-> "text",
          content |-> buildTextDescription(frame.timestamp, frame.textOnScreen.items)])
  \o Opt(frame.actionDescription # "",
         [aspectType |-> "action",
          content |-> << "At ", frame.timestamp, ": ", frame.actionDescription >>])

\* the iteration for this frame raises (a null entry in frame.people)
FrameThrows(frame) ==
  frame.people.present /\ Len(frame.people.items) > 0 /\ PeopleThrows(frame.people.items)

RECURSIVE ExtractLoop(_, _, _)
\* for (const frame of frames) { ... records.push(...) }
ExtractLoop(videoId, frames, records) ==
  IF Len(frames) = 0 THEN records
  ELSE LET aspects == FrameAspects(frames[1])
           pushed == [ j \in 1..Len(aspects) |->
                         AspectRecord(videoId, Len(records) + j, frames[1],
                                      aspects[j].aspectType, aspects[j].content) ]
       IN  ExtractLoop(videoId, Tail(frames), records \o pushed)

\* the call raises when some iteration does; nothing is returned then
extractThrows(frames) == \E i \in 1..Len(frames) : FrameThrows(frames[i])

extractAspectDescriptions(videoId, frames) == ExtractLoop(videoId, frames, << >>)

----------------------------------------------------------------------------
(* Inputs of the extractor: AdvancedFrameData values *)

Absent == [present |-> FALSE, items |-> << >>]

Items(xs) == [present |-> TRUE, items |-> xs]

EmptyPerson ==
  [ null |-> FALSE, id |-> "", role |-> "", threatLevel |-> "", gender |-> "",
    apparentAge |-> "", apparentEthnicity |-> "", physicalBuild |-> "",
    distinguishingFeatures |-> << >>, clothing |-> << >>, facialExpression |-> "",
    emotion |-> "", bodyLanguage |-> "", action |-> "", interactionWith |-> "",
    position |-> "" ]

NullPerson == [EmptyPerson EXCEPT !.null = TRUE]

Robber ==
  [EmptyPerson EXCEPT !.role = "perpetrator", !.threatLevel = "high",
                      !.gender = "male", !.clothing = << "hoodie", "mask" >>]

Bystander == [EmptyPerson EXCEPT !.id = "Person 7", !.role = "unknown",
                                 !.threatLevel = "none"]

PeopleOptions ==
  { Absent, Items(<< >>), Items(<< Robber >>), Items(<< EmptyPerson >>),
    Items(<< Robber, Bystander >>), Items(<< Robber, NullPerson >>) }

Gun == [name |-> "gun", color |-> "black", brand |-> "", state |-> "", description |-> ""]

ObjectsOptions == { Absent, Items(<< >>), Items(<< Gun >>) }

NoScene ==
  [ present |-> FALSE, locationType |-> "", specificLocation |-> "", lighting |-> "",
    weather |-> "", timeOfDay |-> "", cameraAngle |-> "", mood |-> "" ]

SceneOptions ==
  { NoScene,
    [NoScene EXCEPT !.present = TRUE],
    [NoScene EXCEPT !.present = TRUE, !.locationType = "store", !.lighting = "dim"] }

NoAudio == [present |-> FALSE, speech |-> << >>, music |-> "", sounds |-> << >>]

AudioOptions ==
  { NoAudio,
    [NoAudio EXCEPT !.present = TRUE],
    [NoAudio EXCEPT !.present = TRUE,
       !.speech = << [speaker |-> "Person 1", text |-> "hello", tone |-> ""] >>],
    [NoAudio EXCEPT !.present = TRUE, !.music = "jazz", !.sounds = << "alarm" >>] }

TextOptions ==
  { Absent, Items(<< >>),
    Items(<< [type |-> "sign", text |-> "EXIT", position |-> "top"] >>) }

ActionOptions == { "", "runs away" }

ExtractTimestamps == { <<"0","0",":","0","5">>, <<"0","1",":","0","0",":","0","5">> }

FrameInputs ==
  [ timestamp : ExtractTimestamps, people : PeopleOptions, objects : ObjectsOptions,
    scene : SceneOptions, audio : AudioOptions, textOnScreen : TextOptions,
    actionDescription : ActionOptions ]

BlankFrame ==
  [ timestamp |-> <<"0","0",":","0","5">>, people |-> Absent, objects |-> Absent,
    scene |-> NoScene, audio |-> NoAudio, textOnScreen |-> Absent,
    actionDescription |-> "" ]

\* the frames the longer lists are made of
ListFrames ==
  { [BlankFrame EXCEPT !.actionDescription = "runs away"],
    [BlankFrame EXCEPT !.timestamp = <<"0","1",":","0","0",":","0","5">>, !.actionDescription = "falls",
                       !.objects = Items(<< >>), !.people = Items(<< >>)],
    [BlankFrame EXCEPT !.people = Items(<< Robber >>)],
    [BlankFrame EXCEPT !.people = Items(<< NullPerson >>)],
    [BlankFrame EXCEPT !.timestamp = <<"0","0",":","1","0">>,
                       !.audio = [NoAudio EXCEPT !.present = TRUE],
                       !.scene = [NoScene EXCEPT !.present = TRUE]] }

MaxExtractFrames == 2

ExtractVideoId == 1

InitExtract ==
  /\ StoreIdle
  /\ classifyCall = NoCall
  /\ mergeCall = NoCall
  /\ batchRun = NoCall
  /\ searchCall = NoCall
  /\ embedCall = NoCall
  /\ waitCall = NoCall
  /\ uploadReq = NoCall
  /\ globalCall = NoCall
  /\ buildCall = NoCall
  /\ chatService = NoCall
  /\ retryCall = NoCall
  /\ resolveCall = NoCall
  /\ \/ \E f \in FrameInputs :
          extractCall = [state |-> "called", frames |-> << f >>]
     \/ \E n \in 0..MaxExtractFrames : \E fs \in [1..n -> ListFrames] :
          extractCall = [state |-> "called", frames |-> fs]

ExtractReturn ==
  /\ extractCall.state = "called"
  /\ extractCall' =
       IF extractThrows(extractCall.frames)
         THEN [state |-> "threw", frames |-> extractCall.frames]
         ELSE [state |-> "returned", frames |-> extractCall.frames,
               records |-> extractAspectDescriptions(ExtractVideoId, extractCall.frames)]
  /\ UNCHANGED << storeVars, classifyCall, mergeCall, batchRun, searchCall, embedCall, waitCall, uploadReq, globalCall, buildCall, chatService, retryCall, resolveCall >>

NextExtract == ExtractReturn

SpecExtract == InitExtract /\ [][NextExtract]_vars

\* actionDescription is the only populated field of the frame
OnlyAction(frame) ==
  /\ frame.actionDescription # ""
  /\ ~frame.people.present \/ Len(frame.people.items) = 0
  /\ ~frame.objects.present \/ Len(frame.objects.items) = 0
  /\ ~frame.textOnScreen.present \/ Len(frame.textOnScreen.items) = 0
  /\ ~frame.scene.present
  /\ ~frame.audio.present

\* C8: frames whose only populated field is actionDescription yield exactly
\* one record each, of aspect type 'action', carrying the frame's timestamp.
C8_OnlyActionOneRecord ==
  (/\ extractCall.state \in {"returned", "threw"}
   /\ Len(extractCall.frames) > 0
   /\ \A i \in 1..Len(extractCall.frames) : OnlyAction(extractCall.frames[i])) =>
    /\ extractCall.state = "returned"
    /\ Len(extractCall.records) = Len(extractCall.frames)
    /\ \A i \in 1..Len(extractCall.frames) :
         /\ extractCall.records[i].aspectType = "action"
         /\ extractCall.records[i].timestamp = extractCall.frames[i].timestamp

\* a frame with an action description and empty people and objects lists
\* has been extracted
C8_Witness ==
  /\ extractCall.state = "returned"
  /\ Len(extractCall.frames) = 1
  /\ OnlyAction(extractCall.frames[1])
  /\ extractCall.frames[1].people = Items(<< >>)
  /\ Len(extractCall.records) = 1

----------------------------------------------------------------------------
(* Vector store: LanceDBService                                             *)
(*                                                                         *)
(* A table is the set of its rows.  A video id (uuidv4) is a number that   *)
(* is handed out once; the uuid of a frame row is the pair of its video id *)
(* and its place in the inserted list.  The vector of a row and the        *)
(* metadata blob are left out; the ranking of a vector search is any       *)
(* choice of 'limit' rows among those that pass the filter.                *)

\* a value interpolated into  column = '<value>'  leaves a well-formed filter
FilterParses(value) == \A i \in 1..Len(value) : value[i] # "'"

\* LanceDBService.isVideoIndexed: a query that raises is answered 'false'
isVideoIndexed(sourceUri) ==
  IF ~videosTable THEN FALSE
  ELSE IF ~FilterParses(sourceUri) THEN FALSE
  ELSE \E v \in videos : v.sourceUri = sourceUri

\* a caller-supplied id such as  x' OR '1'='1 : interpolated into
\* column = '<id>'  it leaves a well-formed filter that holds for every row
AnyRowId == -1

\* the filter  column = '<videoId>'  evaluated on a row
IdFilter(videoId, rowId) == videoId = AnyRowId \/ rowId = videoId

\* LanceDBService.getVideo: the rows matching the filter (the first is returned)
getVideo(videoId) ==
  IF ~videosTable THEN {} ELSE { v \in videos : IdFilter(videoId, v.id) }

NoVideoId == 0

\* the rows a search may return: 'limit' of the matching rows, or all of them
TopRows(matching, limit) ==
  { S \in SUBSET matching : Cardinality(S) = Min(limit, Cardinality(matching)) }

\* the conditions joined with OR instead of AND
enhancedVectorSearch_AnyCondition(videoId, aspectTypes, limit) ==
  IF ~enhancedFramesTable THEN { {} }
  ELSE TopRows({ r \in enhancedFrames :
                   \/ videoId = NoVideoId /\ Len(aspectTypes) = 0
                   \/ videoId # NoVideoId /\ r.videoId = videoId
                   \/ Len(aspectTypes) > 0 /\ r.aspectType \in Range(aspectTypes) },
               limit)

\* LanceDBService.enhancedVectorSearch: the possible result sets
enhancedVectorSearch(videoId, aspectTypes, limit) ==
  IF ~enhancedFramesTable THEN { {} }
  ELSE TopRows({ r \in enhancedFrames :
                   /\ videoId # NoVideoId => IdFilter(videoId, r.videoId)
                   /\ Len(aspectTypes) > 0 => r.aspectType \in Range(aspectTypes) },
               limit)

\* LanceDBService.vectorSearch: the possible result sets
vectorSearch(videoId, limit) ==
  IF ~framesTable THEN { {} }
  ELSE TopRows({ r \in legacyFrames :
                   videoId # NoVideoId => IdFilter(videoId, r.videoId) },
               limit)

\* table.delete(`videoId = '<videoId>'`)
DeleteRows(rows, videoId) == { r \in rows : ~IdFilter(videoId, r.videoId) }

----------------------------------------------------------------------------
(* Requests.  Every slot holds one request; a request advances at the       *)
(* points where the code awaits.                                           *)

MaxVideos == 2

\* two requests are in flight at a time
Slots == { 1, 2 }

Idle == [kind |-> "idle", pc |-> "idle"]

SourceUris == { <<"u">>, <<"u","'","v">> }

ActionFrame == [BlankFrame EXCEPT !.actionDescription = "runs away"]

RobberFrame ==
  [BlankFrame EXCEPT !.timestamp = <<"0","0",":","1","0">>,
                     !.people = Items(<< Robber >>),
                     !.audio = [NoAudio EXCEPT !.present = TRUE, !.music = "jazz"]]

\* a frame whose people list holds a null entry
NullPersonFrame == [BlankFrame EXCEPT !.people = Items(<< NullPerson >>)]

\* analysis.frames of an indexAdvancedVideoAnalysis call
AnalysisFrames ==
  { << >>, << RobberFrame, ActionFrame >>, << BlankFrame >>,
    << ActionFrame, NullPersonFrame >> }

\* frameDescriptions of an indexVideoAnalysis call
FrameDescriptions ==
  { << >>,
    << [timestamp |-> <<"0","0",":","0","5">>, description |-> "a man runs"] >> }

CONFLICT == 409

BAD_REQUEST == 400

NOT_FOUND == 404

INTERNAL_SERVER_ERROR == 500

\* the call returned without raising
RETURNED == 0

\* the IndexResult of the catch block: success false, frameCount 0
IndexFailure == [success |-> FALSE, frameCount |-> 0]

IndexSuccess(n) == [success |-> TRUE, frameCount |-> n]

\* an HttpException leaves the call without an IndexResult
NoResult == [success |-> FALSE, frameCount |-> 0]

\* an indexing call between two awaits; 'disturbed' records that deleteVideo
\* was called for its video since the call began, 'faulted' that a write of
\* the call was failed by the store on its own account
IndexAt(op, pc, records, create) ==
  [kind |-> op.kind, pc |-> pc, videoId |-> op.videoId,
   sourceUri |-> op.sourceUri, frames |-> << >>, records |-> records,
   create |-> create, disturbed |-> op.disturbed, faulted |-> op.faulted]

IndexDone(op, status, result) ==
  [kind |-> op.kind, pc |-> "done", videoId |-> op.videoId,
   sourceUri |-> op.sourceUri, status |-> status, result |-> result,
   disturbed |-> op.disturbed, faulted |-> op.faulted]

\* frameCount taken as the number of analysed frames
VideoRecord_FramesOfAnalysis(op) ==
  [id |-> op.videoId, sourceUri |-> op.sourceUri,
   frameCount |-> Cardinality({ op.records[n].timestamp : n \in 1..Len(op.records) })]

\* the VideoRecord of an indexing call: frameCount is the number of rows built
VideoRecord(op) ==
  [id |-> op.videoId, sourceUri |-> op.sourceUri, frameCount |-> Len(op.records)]

----------------------------------------------------------------------------
(* VideoIndexService.indexAdvancedVideoAnalysis *)

StartIndexAdvanced(s) ==
  /\ ops[s].kind = "idle"
  /\ nextId < MaxVideos
  /\ \E uri \in SourceUris, fs \in AnalysisFrames :
       ops' = [ops EXCEPT ![s] =
                 [kind |-> "indexAdvanced", pc |-> "isVideoIndexed",
                  videoId |-> nextId + 1, sourceUri |-> uri, frames |-> fs,
                  records |-> << >>, create |-> FALSE, disturbed |-> FALSE,
                  faulted |-> FALSE]]
  /\ nextId' = nextId + 1
  /\ UNCHANGED << callVars, videos, legacyFrames, enhancedFrames, videosTable, framesTable,
                  enhancedFramesTable, embeddingReady >>

\* the frame count is not validated
IndexAdvancedChecked_NoValidation(s) ==
  LET op == ops[s] IN
  /\ op.kind = "indexAdvanced" /\ op.pc = "isVideoIndexed"
  /\ ops' = [ops EXCEPT ![s] =
       IF isVideoIndexed(op.sourceUri) THEN IndexDone(op, CONFLICT, NoResult)
       ELSE IF extractThrows(op.frames) THEN IndexDone(op, RETURNED, IndexFailure)
       ELSE IF ~embeddingReady THEN IndexDone(op, RETURNED, IndexFailure)
       ELSE IndexAt(op, "embedBatch",
                    extractAspectDescriptions(op.videoId, op.frames), FALSE)]
  /\ UNCHANGED << callVars, videos, legacyFrames, enhancedFrames, videosTable, framesTable,
                  enhancedFramesTable, embeddingReady, nextId >>

\* embedBatch does not look at the readiness of the provider
IndexAdvancedChecked_NotReady(s) ==
  LET op == ops[s] IN
  /\ op.kind = "indexAdvanced" /\ op.pc = "isVideoIndexed"
  /\ ops' = [ops EXCEPT ![s] =
       IF isVideoIndexed(op.sourceUri) THEN IndexDone(op, CONFLICT, NoResult)
       ELSE IF Len(op.frames) = 0 THEN IndexDone(op, BAD_REQUEST, NoResult)
       ELSE IF extractThrows(op.frames) THEN IndexDone(op, RETURNED, IndexFailure)
       ELSE IndexAt(op, "embedBatch",
                    extractAspectDescriptions(op.videoId, op.frames), FALSE)]
  /\ UNCHANGED << callVars, videos, legacyFrames, enhancedFrames, videosTable, framesTable,
                  enhancedFramesTable, embeddingReady, nextId >>

\* isVideoIndexed answers; up to the call of embedBatch
IndexAdvancedChecked(s) ==
  LET op == ops[s] IN
  /\ op.kind = "indexAdvanced" /\ op.pc = "isVideoIndexed"
  /\ ops' = [ops EXCEPT ![s] =
       IF isVideoIndexed(op.sourceUri) THEN IndexDone(op, CONFLICT, NoResult)
       ELSE IF Len(op.frames) = 0 THEN IndexDone(op, BAD_REQUEST, NoResult)
       ELSE IF extractThrows(op.frames) THEN IndexDone(op, RETURNED, IndexFailure)
       ELSE IF ~embeddingReady THEN IndexDone(op, RETURNED, IndexFailure)
       ELSE IndexAt(op, "embedBatch",
                    extractAspectDescriptions(op.videoId, op.frames), FALSE)]
  /\ UNCHANGED << callVars, videos, legacyFrames, enhancedFrames, videosTable, framesTable,
                  enhancedFramesTable, embeddingReady, nextId >>

\* embedBatch answers; insertVideo is called and looks at this.videosTable
IndexAdvancedEmbedded(s) ==
  LET op == ops[s] IN
  /\ op.kind = "indexAdvanced" /\ op.pc = "embedBatch"
  /\ ops' = [ops EXCEPT ![s] = IndexAt(op, "insertVideo", op.records, ~videosTable)]
  /\ UNCHANGED << callVars, videos, legacyFrames, enhancedFrames, videosTable, framesTable,
                  enhancedFramesTable, embeddingReady, nextId >>

\* createTable / add of insertVideo answers; insertEnhancedFrames is called
IndexAdvancedVideoInserted(s) ==
  LET op == ops[s] IN
  /\ op.kind = "indexAdvanced" /\ op.pc = "insertVideo"
  /\ \E fault \in BOOLEAN :
       IF fault \/ (op.create /\ videosTable)
         THEN /\ ops' = [ops EXCEPT ![s] =
                   IndexDone([op EXCEPT !.faulted = fault], RETURNED, IndexFailure)]
              /\ UNCHANGED << videos, videosTable >>
         ELSE /\ videos' = videos \cup { VideoRecord(op) }
              /\ videosTable' = TRUE
              /\ ops' = [ops EXCEPT ![s] =
                   IF Len(op.records) = 0
                     THEN IndexAt(op, "getStats", op.records, FALSE)
                     ELSE IndexAt(op, "insertEnhancedFrames", op.records,
                                  ~enhancedFramesTable)]
  /\ UNCHANGED << callVars, legacyFrames, enhancedFrames, framesTable, enhancedFramesTable,
                  embeddingReady, nextId >>

\* createTable / add of insertEnhancedFrames answers; getStats is called
IndexAdvancedFramesInserted(s) ==
  LET op == ops[s] IN
  /\ op.kind = "indexAdvanced" /\ op.pc = "insertEnhancedFrames"
  /\ \E fault \in BOOLEAN :
       IF fault \/ (op.create /\ enhancedFramesTable)
         THEN /\ ops' = [ops EXCEPT ![s] =
                   IndexDone([op EXCEPT !.faulted = fault], RETURNED, IndexFailure)]
              /\ UNCHANGED << enhancedFrames, enhancedFramesTable >>
         ELSE /\ enhancedFrames' = enhancedFrames \cup Range(op.records)
              /\ enhancedFramesTable' = TRUE
              /\ ops' = [ops EXCEPT ![s] = IndexAt(op, "getStats", op.records, FALSE)]
  /\ UNCHANGED << callVars, videos, legacyFrames, videosTable, framesTable,
                  embeddingReady, nextId >>

\* getStats and createIndex run to their end: a failing index build is logged
\* only, a failing countRows is caught as a failure of the call
IndexAdvancedStats(s) ==
  LET op == ops[s] IN
  /\ op.kind = "indexAdvanced" /\ op.pc = "getStats"
  /\ \E fault \in BOOLEAN :
       ops' = [ops EXCEPT ![s] =
                 IF fault THEN IndexDone([op EXCEPT !.faulted = TRUE], RETURNED, IndexFailure)
                 ELSE IndexDone(op, RETURNED, IndexSuccess(Len(op.records)))]
  /\ UNCHANGED << callVars, videos, legacyFrames, enhancedFrames, videosTable, framesTable,
                  enhancedFramesTable, embeddingReady, nextId >>

----------------------------------------------------------------------------
(* VideoIndexService.indexVideoAnalysis (legacy frames) *)

FrameRecord(videoId, n, frame) ==
  [ id |-> << videoId, n >>,
    videoId |-> videoId,
    timestamp |-> frame.timestamp,
    timestampSeconds |-> parseTimestamp(frame.timestamp),
    description |-> frame.description ]

FrameRecords(videoId, frameDescriptions) ==
  [ n \in 1..Len(frameDescriptions) |-> FrameRecord(videoId, n, frameDescriptions[n]) ]

StartIndex(s) ==
  /\ ops[s].kind = "idle"
  /\ nextId < MaxVideos
  /\ \E uri \in SourceUris, fs \in FrameDescriptions :
       ops' = [ops EXCEPT ![s] =
                 [kind |-> "index", pc |-> "isVideoIndexed",
                  videoId |-> nextId + 1, sourceUri |-> uri, frames |-> fs,
                  records |-> << >>, create |-> FALSE, disturbed |-> FALSE,
                  faulted |-> FALSE]]
  /\ nextId' = nextId + 1
  /\ UNCHANGED << callVars, videos, legacyFrames, enhancedFrames, videosTable, framesTable,
                  enhancedFramesTable, embeddingReady >>

\* isVideoIndexed answers; up to the call of embedBatch
IndexChecked(s) ==
  LET op == ops[s] IN
  /\ op.kind = "index" /\ op.pc = "isVideoIndexed"
  /\ ops' = [ops EXCEPT ![s] =
       IF isVideoIndexed(op.sourceUri) THEN IndexDone(op, CONFLICT, NoResult)
       ELSE IF Len(op.frames) = 0 THEN IndexDone(op, BAD_REQUEST, NoResult)
       ELSE IF ~embeddingReady THEN IndexDone(op, RETURNED, IndexFailure)
       ELSE IndexAt(op, "embedBatch", FrameRecords(op.videoId, op.frames), FALSE)]
  /\ UNCHANGED << callVars, videos, legacyFrames, enhancedFrames, videosTable, framesTable,
                  enhancedFramesTable, embeddingReady, nextId >>

\* embedBatch answers; insertVideo is called and looks at this.videosTable
IndexEmbedded(s) ==
  LET op == ops[s] IN
  /\ op.kind = "index" /\ op.pc = "embedBatch"
  /\ ops' = [ops EXCEPT ![s] = IndexAt(op, "insertVideo", op.records, ~videosTable)]
  /\ UNCHANGED << callVars, videos, legacyFrames, enhancedFrames, videosTable, framesTable,
                  enhancedFramesTable, embeddingReady, nextId >>

\* createTable / add of insertVideo answers; insertFrames is called
IndexVideoInserted(s) ==
  LET op == ops[s] IN
  /\ op.kind = "index" /\ op.pc = "insertVideo"
  /\ \E fault \in BOOLEAN :
       IF fault \/ (op.create /\ videosTable)
         THEN /\ ops' = [ops EXCEPT ![s] =
                   IndexDone([op EXCEPT !.faulted = fault], RETURNED, IndexFailure)]
              /\ UNCHANGED << videos, videosTable >>
         ELSE /\ videos' = videos \cup { VideoRecord(op) }
              /\ videosTable' = TRUE
              /\ ops' = [ops EXCEPT ![s] =
                   IndexAt(op, "insertFrames", op.records, ~framesTable)]
  /\ UNCHANGED << callVars, legacyFrames, enhancedFrames, framesTable, enhancedFramesTable,
                  embeddingReady, nextId >>

\* createTable / add of insertFrames answers; getStats is called
IndexFramesInserted(s) ==
  LET op == ops[s] IN
  /\ op.kind = "index" /\ op.pc = "insertFrames"
  /\ \E fault \in BOOLEAN :
       IF fault \/ (op.create /\ framesTable)
         THEN /\ ops' = [ops EXCEPT ![s] =
                   IndexDone([op EXCEPT !.faulted = fault], RETURNED, IndexFailure)]
              /\ UNCHANGED << legacyFrames, framesTable >>
         ELSE /\ legacyFrames' = legacyFrames \cup Range(op.records)
              /\ framesTable' = TRUE
              /\ ops' = [ops EXCEPT ![s] = IndexAt(op, "getStats", op.records, FALSE)]
  /\ UNCHANGED << callVars, videos, enhancedFrames, videosTable, enhancedFramesTable,
                  embeddingReady, nextId >>

\* getStats and createIndex run to their end: a failing index build is logged
\* only, a failing countRows is caught as a failure of the call
IndexStats(s) ==
  LET op == ops[s] IN
  /\ op.kind = "index" /\ op.pc = "getStats"
  /\ \E fault \in BOOLEAN :
       ops' = [ops EXCEPT ![s] =
                 IF fault THEN IndexDone([op EXCEPT !.faulted = TRUE], RETURNED, IndexFailure)
                 ELSE IndexDone(op, RETURNED, IndexSuccess(Len(op.records)))]
  /\ UNCHANGED << callVars, videos, legacyFrames, enhancedFrames, videosTable, framesTable,
                  enhancedFramesTable, embeddingReady, nextId >>

----------------------------------------------------------------------------
(* VideoIndexService.deleteIndexedVideo and LanceDBService.deleteVideo *)

IndexKinds == { "index", "indexAdvanced" }

\* an indexing call for this video has not yet returned
Indexing(videoId) ==
  \E t \in Slots : /\ ops[t].kind \in IndexKinds
                   /\ ops[t].pc # "done"
                   /\ IdFilter(videoId, ops[t].videoId)

\* deleteVideo without the enhanced_frames table
DeleteFrom_LegacyOnly(stage) ==
  IF stage = "getVideo" /\ framesTable THEN "deleteFrames"
  ELSE IF stage # "deleteVideos" /\ videosTable THEN "deleteVideos"
  ELSE "done"

\* the table deleteVideo turns to after 'stage', from the handles it finds set
DeleteFrom(stage) ==
  IF stage = "getVideo" /\ framesTable THEN "deleteFrames"
  ELSE IF stage \in { "getVideo", "deleteFrames" } /\ enhancedFramesTable
    THEN "deleteEnhancedFrames"
  ELSE IF stage # "deleteVideos" /\ videosTable THEN "deleteVideos"
  ELSE "done"

\* a delete call between two awaits; 'racing' records that an indexing call
\* for the video was still running when deleteVideo was called
DeleteAt(op, pc, video, racing) ==
  [kind |-> op.kind, pc |-> pc, videoId |-> op.videoId, video |-> video,
   racing |-> racing, status |-> RETURNED]

StartDelete(s) ==
  /\ ops[s].kind = "idle"
  /\ \E videoId \in 1..MaxVideos :
       ops' = [ops EXCEPT ![s] =
                 [kind |-> "delete", pc |-> "getVideo", videoId |-> videoId,
                  video |-> {}, racing |-> FALSE, status |-> RETURNED]]
  /\ UNCHANGED << callVars, videos, legacyFrames, enhancedFrames, videosTable, framesTable,
                  enhancedFramesTable, embeddingReady, nextId >>

\* DELETE videos/:id with any id the caller chooses
StartDeleteById(s) ==
  /\ ops[s].kind = "idle"
  /\ \E videoId \in (1..MaxVideos) \cup { AnyRowId } :
       ops' = [ops EXCEPT ![s] =
                 [kind |-> "delete", pc |-> "getVideo", videoId |-> videoId,
                  video |-> {}, racing |-> FALSE, status |-> RETURNED]]
  /\ UNCHANGED << callVars, videos, legacyFrames, enhancedFrames, videosTable, framesTable,
                  enhancedFramesTable, embeddingReady, nextId >>

\* getVideo answers; deleteVideo is called
DeleteGotVideo(s) ==
  LET op == ops[s] IN
  /\ op.kind = "delete" /\ op.pc = "getVideo"
  /\ IF getVideo(op.videoId) = {}
       THEN ops' = [ops EXCEPT ![s] = [DeleteAt(op, "done", {}, FALSE)
                                         EXCEPT !.status = NOT_FOUND]]
       ELSE ops' = [t \in Slots |->
              IF t = s
                THEN DeleteAt(op, DeleteFrom("getVideo"), getVideo(op.videoId),
                              Indexing(op.videoId))
              ELSE IF ops[t].kind \in IndexKinds /\ IdFilter(op.videoId, ops[t].videoId)
                THEN [ops[t] EXCEPT !.disturbed = TRUE]
              ELSE ops[t]]
  /\ UNCHANGED << callVars, videos, legacyFrames, enhancedFrames, videosTable, framesTable,
                  enhancedFramesTable, embeddingReady, nextId >>

\* framesTable.delete answers
DeleteFramesDeleted(s) ==
  LET op == ops[s] IN
  /\ op.kind = "delete" /\ op.pc = "deleteFrames"
  /\ legacyFrames' = DeleteRows(legacyFrames, op.videoId)
  /\ ops' = [ops EXCEPT ![s] = DeleteAt(op, DeleteFrom("deleteFrames"), op.video, op.racing)]
  /\ UNCHANGED << callVars, videos, enhancedFrames, videosTable, framesTable,
                  enhancedFramesTable, embeddingReady, nextId >>

\* enhancedFramesTable.delete answers
DeleteEnhancedFramesDeleted(s) ==
  LET op == ops[s] IN
  /\ op.kind = "delete" /\ op.pc = "deleteEnhancedFrames"
  /\ enhancedFrames' = DeleteRows(enhancedFrames, op.videoId)
  /\ ops' = [ops EXCEPT ![s] =
       DeleteAt(op, DeleteFrom("deleteEnhancedFrames"), op.video, op.racing)]
  /\ UNCHANGED << callVars, videos, legacyFrames, videosTable, framesTable,
                  enhancedFramesTable, embeddingReady, nextId >>

\* videosTable.delete answers
DeleteVideosDeleted(s) ==
  LET op == ops[s] IN
  /\ op.kind = "delete" /\ op.pc = "deleteVideos"
  /\ videos' = { v \in videos : ~IdFilter(op.videoId, v.id) }
  /\ ops' = [ops EXCEPT ![s] = DeleteAt(op, "done", op.video, op.racing)]
  /\ UNCHANGED << callVars, legacyFrames, enhancedFrames, videosTable, framesTable,
                  enhancedFramesTable, embeddingReady, nextId >>

----------------------------------------------------------------------------
(* RAGChatService.advancedChat and RAGChatService.chat *)

DefaultTopK == 5

AbsentTopK == 0

TopKs == { AbsentTopK, 1 }

ChatQueries == { <<"w","h","o">>, <<"c","a","r">> }

NoContentAnswer == "No relevant content found in the indexed video for this query."

\* one call of a collaborator, as the request made it, and the number of rows
\* it returned, -1 when it raised
Call(name, videoId, aspectTypes, limit, found) ==
  [call |-> name, videoId |-> videoId, aspectTypes |-> aspectTypes,
   limit |-> limit, found |-> found]

Raised == -1

Sources(rows) == { [id |-> r.id, videoId |-> r.videoId] : r \in rows }

ChatDone(op, status, answer, sources, calls) ==
  [kind |-> op.kind, pc |-> "done", videoId |-> op.videoId, k |-> op.k,
   status |-> status, answer |-> answer, sources |-> sources, calls |-> calls]

ChatAt(op, pc, aspects, rows, calls) ==
  [kind |-> op.kind, pc |-> pc, videoId |-> op.videoId, k |-> op.k,
   aspects |-> aspects, rows |-> rows, calls |-> calls]

StartAdvancedChat(s) ==
  /\ ops[s].kind = "idle"
  /\ \E videoId \in 1..MaxVideos, query \in ChatQueries, topK \in TopKs :
       ops' = [ops EXCEPT ![s] =
                 [kind |-> "advancedChat", pc |-> "getVideo", videoId |-> videoId,
                  query |-> query,
                  k |-> IF topK = AbsentTopK THEN DefaultTopK * 2 ELSE topK]]
  /\ UNCHANGED << callVars, videos, legacyFrames, enhancedFrames, videosTable, framesTable,
                  enhancedFramesTable, embeddingReady, nextId >>

\* POST /lancedb/chat/advanced: the videoId is whatever the caller wrote
StartAdvancedChatById(s) ==
  /\ ops[s].kind = "idle"
  /\ \E videoId \in (1..MaxVideos) \cup { AnyRowId }, topK \in TopKs :
       ops' = [ops EXCEPT ![s] =
                 [kind |-> "advancedChat", pc |-> "getVideo", videoId |-> videoId,
                  query |-> << "w", "h", "o" >>,
                  k |-> IF topK = AbsentTopK THEN DefaultTopK * 2 ELSE topK]]
  /\ UNCHANGED << callVars, videos, legacyFrames, enhancedFrames, videosTable, framesTable,
                  enhancedFramesTable, embeddingReady, nextId >>

\* embed is called before the video is looked up
AdvancedChatGotVideo_EmbedFirst(s) ==
  LET op == ops[s]
      got == << Call("embed", NoVideoId, << >>, 0, 0),
                Call("getVideo", op.videoId, << >>, 1,
                     Cardinality(getVideo(op.videoId))) >>
  IN
  /\ op.kind = "advancedChat" /\ op.pc = "getVideo"
  /\ ops' = [ops EXCEPT ![s] =
       IF ~embeddingReady
         THEN ChatDone(op, INTERNAL_SERVER_ERROR, "", {}, << got[1] >>)
       ELSE IF getVideo(op.videoId) = {}
         THEN ChatDone(op, NOT_FOUND, "", {}, got)
       ELSE ChatAt(op, "enhancedVectorSearch", classifyQuery(op.query).aspects,
                   {}, got)]
  /\ UNCHANGED << callVars, videos, legacyFrames, enhancedFrames, videosTable, framesTable,
                  enhancedFramesTable, embeddingReady, nextId >>

\* getVideo answers; the query is classified and embed is called
AdvancedChatGotVideo(s) ==
  LET op == ops[s]
      got == << Call("getVideo", op.videoId, << >>, 1,
                     Cardinality(getVideo(op.videoId))) >>
      embed == Call("embed", NoVideoId, << >>, 0, 0)
  IN
  /\ op.kind = "advancedChat" /\ op.pc = "getVideo"
  /\ ops' = [ops EXCEPT ![s] =
       IF getVideo(op.videoId) = {}
         THEN ChatDone(op, NOT_FOUND, "", {}, got)
       ELSE IF ~embeddingReady
         THEN ChatDone(op, INTERNAL_SERVER_ERROR, "", {}, Append(got, embed))
       ELSE ChatAt(op, "enhancedVectorSearch", classifyQuery(op.query).aspects,
                   {}, Append(got, embed))]
  /\ UNCHANGED << callVars, videos, legacyFrames, enhancedFrames, videosTable, framesTable,
                  enhancedFramesTable, embeddingReady, nextId >>

\* an empty aspect-filtered search goes straight to the legacy search
AdvancedChatSearched_SkipUnfiltered(s) ==
  LET op == ops[s] IN
  /\ op.kind = "advancedChat" /\ op.pc = "enhancedVectorSearch"
  /\ \E fault \in BOOLEAN :
     \E rows \in enhancedVectorSearch(op.videoId, op.aspects, op.k) :
       LET calls == Append(op.calls,
                      Call("enhancedVectorSearch", op.videoId, op.aspects, op.k,
                           IF fault THEN Raised ELSE Cardinality(rows)))
       IN ops' = [ops EXCEPT ![s] =
            IF fault THEN ChatDone(op, INTERNAL_SERVER_ERROR, "", {}, calls)
            ELSE IF rows = {}
              THEN ChatAt(op, "vectorSearch", op.aspects, {}, calls)
            ELSE ChatAt(op, "synthesizeAdvancedAnswer", op.aspects,
                        Sources(rows), calls)]
  /\ UNCHANGED << callVars, videos, legacyFrames, enhancedFrames, videosTable, framesTable,
                  enhancedFramesTable, embeddingReady, nextId >>

\* the aspect-filtered enhancedVectorSearch answers
AdvancedChatSearched(s) ==
  LET op == ops[s] IN
  /\ op.kind = "advancedChat" /\ op.pc = "enhancedVectorSearch"
  /\ \E fault \in BOOLEAN :
     \E rows \in enhancedVectorSearch(op.videoId, op.aspects, op.k) :
       LET calls == Append(op.calls,
                      Call("enhancedVectorSearch", op.videoId, op.aspects, op.k,
                           IF fault THEN Raised ELSE Cardinality(rows)))
       IN ops' = [ops EXCEPT ![s] =
            IF fault THEN ChatDone(op, INTERNAL_SERVER_ERROR, "", {}, calls)
            ELSE IF rows = {}
              THEN ChatAt(op, "enhancedVectorSearchAll", op.aspects, {}, calls)
            ELSE ChatAt(op, "synthesizeAdvancedAnswer", op.aspects,
                        Sources(rows), calls)]
  /\ UNCHANGED << callVars, videos, legacyFrames, enhancedFrames, videosTable, framesTable,
                  enhancedFramesTable, embeddingReady, nextId >>

\* the enhancedVectorSearch without aspect filter answers
AdvancedChatSearchedAll(s) ==
  LET op == ops[s] IN
  /\ op.kind = "advancedChat" /\ op.pc = "enhancedVectorSearchAll"
  /\ \E fault \in BOOLEAN :
     \E rows \in enhancedVectorSearch(op.videoId, << >>, op.k) :
       LET calls == Append(op.calls,
                      Call("enhancedVectorSearch", op.videoId, << >>, op.k,
                           IF fault THEN Raised ELSE Cardinality(rows)))
       IN ops' = [ops EXCEPT ![s] =
            IF fault THEN ChatDone(op, INTERNAL_SERVER_ERROR, "", {}, calls)
            ELSE IF rows = {}
              THEN ChatAt(op, "vectorSearch", op.aspects, {}, calls)
            ELSE ChatAt(op, "synthesizeAdvancedAnswer", op.aspects,
                        Sources(rows), calls)]
  /\ UNCHANGED << callVars, videos, legacyFrames, enhancedFrames, videosTable, framesTable,
                  enhancedFramesTable, embeddingReady, nextId >>

\* the legacy vectorSearch answers
AdvancedChatSearchedLegacy(s) ==
  LET op == ops[s] IN
  /\ op.kind = "advancedChat" /\ op.pc = "vectorSearch"
  /\ \E fault \in BOOLEAN :
     \E rows \in vectorSearch(op.videoId, op.k) :
       LET calls == Append(op.calls,
                      Call("vectorSearch", op.videoId, << >>, op.k,
                           IF fault THEN Raised ELSE Cardinality(rows)))
       IN ops' = [ops EXCEPT ![s] =
            IF fault THEN ChatDone(op, INTERNAL_SERVER_ERROR, "", {}, calls)
            ELSE IF rows = {}
              THEN ChatDone(op, RETURNED, NoContentAnswer, {}, calls)
            ELSE ChatAt(op, "synthesizeAnswer", op.aspects, Sources(rows), calls)]
  /\ UNCHANGED << callVars, videos, legacyFrames, enhancedFrames, videosTable, framesTable,
                  enhancedFramesTable, embeddingReady, nextId >>

\* generateWithSystemInstruction answers or raises
AdvancedChatSynthesized(s) ==
  LET op == ops[s]
      calls == Append(op.calls, Call("generateWithSystemInstruction", NoVideoId,
                                     << >>, 0, 0))
  IN
  /\ op.kind = "advancedChat"
  /\ op.pc \in { "synthesizeAdvancedAnswer", "synthesizeAnswer" }
  /\ \E fault \in BOOLEAN :
       ops' = [ops EXCEPT ![s] =
         IF fault THEN ChatDone(op, INTERNAL_SERVER_ERROR, "", {}, calls)
                  ELSE ChatDone(op, RETURNED, "generated", op.rows, calls)]
  /\ UNCHANGED << callVars, videos, legacyFrames, enhancedFrames, videosTable, framesTable,
                  enhancedFramesTable, embeddingReady, nextId >>

StartChat(s) ==
  /\ ops[s].kind = "idle"
  /\ \E videoId \in 1..MaxVideos, topK \in TopKs :
       ops' = [ops EXCEPT ![s] =
                 [kind |-> "chat", pc |-> "getVideo", videoId |-> videoId,
                  k |-> IF topK = AbsentTopK THEN DefaultTopK ELSE topK]]
  /\ UNCHANGED << callVars, videos, legacyFrames, enhancedFrames, videosTable, framesTable,
                  enhancedFramesTable, embeddingReady, nextId >>

\* getVideo answers; embed is called
ChatGotVideo(s) ==
  LET op == ops[s]
      got == << Call("getVideo", op.videoId, << >>, 1,
                     Cardinality(getVideo(op.videoId))) >>
      embed == Call("embed", NoVideoId, << >>, 0, 0)
  IN
  /\ op.kind = "chat" /\ op.pc = "getVideo"
  /\ ops' = [ops EXCEPT ![s] =
       IF getVideo(op.videoId) = {}
         THEN ChatDone(op, NOT_FOUND, "", {}, got)
       ELSE IF ~embeddingReady
         THEN ChatDone(op, INTERNAL_SERVER_ERROR, "", {}, Append(got, embed))
       ELSE ChatAt(op, "vectorSearch", << >>, {}, Append(got, embed))]
  /\ UNCHANGED << callVars, videos, legacyFrames, enhancedFrames, videosTable, framesTable,
                  enhancedFramesTable, embeddingReady, nextId >>

\* the answer is synthesized whatever the search returned
ChatSearched_AlwaysSynthesize(s) ==
  LET op == ops[s] IN
  /\ op.kind = "chat" /\ op.pc = "vectorSearch"
  /\ \E fault \in BOOLEAN :
     \E rows \in vectorSearch(op.videoId, op.k) :
       LET calls == Append(op.calls,
                      Call("vectorSearch", op.videoId, << >>, op.k,
                           IF fault THEN Raised ELSE Cardinality(rows)))
       IN ops' = [ops EXCEPT ![s] =
            IF fault THEN ChatDone(op, INTERNAL_SERVER_ERROR, "", {}, calls)
            ELSE ChatAt(op, "synthesizeAnswer", << >>, Sources(rows), calls)]
  /\ UNCHANGED << callVars, videos, legacyFrames, enhancedFrames, videosTable, framesTable,
                  enhancedFramesTable, embeddingReady, nextId >>

\* vectorSearch answers
ChatSearched(s) ==
  LET op == ops[s] IN
  /\ op.kind = "chat" /\ op.pc = "vectorSearch"
  /\ \E fault \in BOOLEAN :
     \E rows \in vectorSearch(op.videoId, op.k) :
       LET calls == Append(op.calls,
                      Call("vectorSearch", op.videoId, << >>, op.k,
                           IF fault THEN Raised ELSE Cardinality(rows)))
       IN ops' = [ops EXCEPT ![s] =
            IF fault THEN ChatDone(op, INTERNAL_SERVER_ERROR, "", {}, calls)
            ELSE IF rows = {}
              THEN ChatDone(op, RETURNED, NoContentAnswer, {}, calls)
            ELSE ChatAt(op, "synthesizeAnswer", << >>, Sources(rows), calls)]
  /\ UNCHANGED << callVars, videos, legacyFrames, enhancedFrames, videosTable, framesTable,
                  enhancedFramesTable, embeddingReady, nextId >>

\* generateWithSystemInstruction answers or raises
ChatSynthesized(s) ==
  LET op == ops[s]
      calls == Append(op.calls, Call("generateWithSystemInstruction", NoVideoId,
                                     << >>, 0, 0))
  IN
  /\ op.kind = "chat" /\ op.pc = "synthesizeAnswer"
  /\ \E fault \in BOOLEAN :
       ops' = [ops EXCEPT ![s] =
         IF fault THEN ChatDone(op, INTERNAL_SERVER_ERROR, "", {}, calls)
                  ELSE ChatDone(op, RETURNED, "generated", op.rows, calls)]
  /\ UNCHANGED << callVars, videos, legacyFrames, enhancedFrames, videosTable, framesTable,
                  enhancedFramesTable, embeddingReady, nextId >>

----------------------------------------------------------------------------
(* The service as a whole *)

\* EmbeddingService.initialize: the model is loaded
EmbeddingInitialize ==
  /\ ~embeddingReady
  /\ embeddingReady' = TRUE
  /\ UNCHANGED << callVars, videos, legacyFrames, enhancedFrames, videosTable, framesTable,
                  enhancedFramesTable, nextId, ops >>

\* the response of a finished request is delivered
Return(s) ==
  /\ ops[s].pc = "done"
  /\ ops' = [ops EXCEPT ![s] = Idle]
  /\ UNCHANGED << callVars, videos, legacyFrames, enhancedFrames, videosTable, framesTable,
                  enhancedFramesTable, embeddingReady, nextId >>

Init ==
  /\ videos = {} /\ legacyFrames = {} /\ enhancedFrames = {}
  /\ videosTable = FALSE /\ framesTable = FALSE /\ enhancedFramesTable = FALSE
  /\ embeddingReady = FALSE
  /\ nextId = 0
  /\ ops = [s \in Slots |-> Idle]
  /\ classifyCall = NoCall /\ extractCall = NoCall /\ mergeCall = NoCall
  /\ batchRun = NoCall
  /\ searchCall = NoCall
  /\ embedCall = NoCall
  /\ waitCall = NoCall
  /\ uploadReq = NoCall
  /\ globalCall = NoCall
  /\ buildCall = NoCall
  /\ chatService = NoCall
  /\ retryCall = NoCall
  /\ resolveCall = NoCall

\* indexing and deleting requests, two at a time
Next ==
     \/ EmbeddingInitialize
     \/ \E s \in Slots : StartIndexAdvanced(s)
     \/ \E s \in Slots : IndexAdvancedChecked(s)
     \/ \E s \in Slots : IndexAdvancedEmbedded(s)
     \/ \E s \in Slots : IndexAdvancedVideoInserted(s)
     \/ \E s \in Slots : IndexAdvancedFramesInserted(s)
     \/ \E s \in Slots : IndexAdvancedStats(s)
     \/ \E s \in Slots : StartIndex(s)
     \/ \E s \in Slots : IndexChecked(s)
     \/ \E s \in Slots : IndexEmbedded(s)
     \/ \E s \in Slots : IndexVideoInserted(s)
     \/ \E s \in Slots : IndexFramesInserted(s)
     \/ \E s \in Slots : IndexStats(s)
     \/ \E s \in Slots : StartDelete(s)
     \/ \E s \in Slots : DeleteGotVideo(s)
     \/ \E s \in Slots : DeleteFramesDeleted(s)
     \/ \E s \in Slots : DeleteEnhancedFramesDeleted(s)
     \/ \E s \in Slots : DeleteVideosDeleted(s)
     \/ \E s \in Slots : Return(s)

Spec == Init /\ [][Next]_vars

WriterSlots == { 1 }

ChatSlots == { 2 }

\* chat requests beside one indexing or deleting request
NextChat ==
     \/ EmbeddingInitialize
     \/ \E s \in WriterSlots : StartIndexAdvanced(s)
     \/ \E s \in WriterSlots : IndexAdvancedChecked(s)
     \/ \E s \in WriterSlots : IndexAdvancedEmbedded(s)
     \/ \E s \in WriterSlots : IndexAdvancedVideoInserted(s)
     \/ \E s \in WriterSlots : IndexAdvancedFramesInserted(s)
     \/ \E s \in WriterSlots : IndexAdvancedStats(s)
     \/ \E s \in WriterSlots : StartIndex(s)
     \/ \E s \in WriterSlots : IndexChecked(s)
     \/ \E s \in WriterSlots : IndexEmbedded(s)
     \/ \E s \in WriterSlots : IndexVideoInserted(s)
     \/ \E s \in WriterSlots : IndexFramesInserted(s)
     \/ \E s \in WriterSlots : IndexStats(s)
     \/ \E s \in WriterSlots : StartDelete(s)
     \/ \E s \in WriterSlots : DeleteGotVideo(s)
     \/ \E s \in WriterSlots : DeleteFramesDeleted(s)
     \/ \E s \in WriterSlots : DeleteEnhancedFramesDeleted(s)
     \/ \E s \in WriterSlots : DeleteVideosDeleted(s)
     \/ \E s \in ChatSlots : StartAdvancedChat(s)
     \/ \E s \in ChatSlots : AdvancedChatGotVideo(s)
     \/ \E s \in ChatSlots : AdvancedChatSearched(s)
     \/ \E s \in ChatSlots : AdvancedChatSearchedAll(s)
     \/ \E s \in ChatSlots : AdvancedChatSearchedLegacy(s)
     \/ \E s \in ChatSlots : AdvancedChatSynthesized(s)
     \/ \E s \in ChatSlots : StartChat(s)
     \/ \E s \in ChatSlots : ChatGotVideo(s)
     \/ \E s \in ChatSlots : ChatSearched(s)
     \/ \E s \in ChatSlots : ChatSynthesized(s)
     \/ \E s \in Slots : Return(s)

SpecChat == Init /\ [][NextChat]_vars

DeleteSlots == { 2 }

\* delete requests by caller-supplied id beside one indexing request
NextDelete ==
     \/ EmbeddingInitialize
     \/ \E s \in WriterSlots : StartIndexAdvanced(s)
     \/ \E s \in WriterSlots : IndexAdvancedChecked(s)
     \/ \E s \in WriterSlots : IndexAdvancedEmbedded(s)
     \/ \E s \in WriterSlots : IndexAdvancedVideoInserted(s)
     \/ \E s \in WriterSlots : IndexAdvancedFramesInserted(s)
     \/ \E s \in WriterSlots : IndexAdvancedStats(s)
     \/ \E s \in WriterSlots : StartIndex(s)
     \/ \E s \in WriterSlots : IndexChecked(s)
     \/ \E s \in WriterSlots : IndexEmbedded(s)
     \/ \E s \in WriterSlots : IndexVideoInserted(s)
     \/ \E s \in WriterSlots : IndexFramesInserted(s)
     \/ \E s \in WriterSlots : IndexStats(s)
     \/ \E s \in DeleteSlots : StartDeleteById(s)
     \/ \E s \in DeleteSlots : DeleteGotVideo(s)
     \/ \E s \in DeleteSlots : DeleteFramesDeleted(s)
     \/ \E s \in DeleteSlots : DeleteEnhancedFramesDeleted(s)
     \/ \E s \in DeleteSlots : DeleteVideosDeleted(s)
     \/ \E s \in Slots : Return(s)

SpecDelete == Init /\ [][NextDelete]_vars

\* advancedChat requests by caller-supplied id beside one indexing request
NextChatById ==
     \/ EmbeddingInitialize
     \/ \E s \in WriterSlots : StartIndexAdvanced(s)
     \/ \E s \in WriterSlots : IndexAdvancedChecked(s)
     \/ \E s \in WriterSlots : IndexAdvancedEmbedded(s)
     \/ \E s \in WriterSlots : IndexAdvancedVideoInserted(s)
     \/ \E s \in WriterSlots : IndexAdvancedFramesInserted(s)
     \/ \E s \in WriterSlots : IndexAdvancedStats(s)
     \/ \E s \in WriterSlots : StartIndex(s)
     \/ \E s \in WriterSlots : IndexChecked(s)
     \/ \E s \in WriterSlots : IndexEmbedded(s)
     \/ \E s \in WriterSlots : IndexVideoInserted(s)
     \/ \E s \in WriterSlots : IndexFramesInserted(s)
     \/ \E s \in WriterSlots : IndexStats(s)
     \/ \E s \in ChatSlots : StartAdvancedChatById(s)
     \/ \E s \in ChatSlots : AdvancedChatGotVideo(s)
     \/ \E s \in ChatSlots : AdvancedChatSearched(s)
     \/ \E s \in ChatSlots : AdvancedChatSearchedAll(s)
     \/ \E s \in ChatSlots : AdvancedChatSearchedLegacy(s)
     \/ \E s \in ChatSlots : AdvancedChatSynthesized(s)
     \/ \E s \in Slots : Return(s)

SpecChatById == Init /\ [][NextChatById]_vars

----------------------------------------------------------------------------
(* Properties of indexing and deleting *)

\* C1: an indexing call for a sourceUri that has a VideoRecord when
\* isVideoIndexed answers is rejected with 409 and changes no table
C1_ReindexRejected ==
  [][ \A s \in Slots :
        ( /\ ops[s].kind \in IndexKinds
          /\ ops[s].pc = "isVideoIndexed"
          /\ \E v \in videos : v.sourceUri = ops[s].sourceUri
          /\ ops'[s].pc # "isVideoIndexed" )
        => ( /\ ops'[s].pc = "done"
             /\ ops'[s].status = CONFLICT
             /\ videos' = videos
             /\ legacyFrames' = legacyFrames
             /\ enhancedFrames' = enhancedFrames ) ]_vars

EnhancedOf(videoId) == { r \in enhancedFrames : r.videoId = videoId }

LegacyOf(videoId) == { r \in legacyFrames : r.videoId = videoId }

\* C2: once indexAdvancedVideoAnalysis has returned success, and no
\* deleteVideo was called for the video meanwhile, getVideo returns a record
\* whose frameCount is the number of enhanced rows stored for the video and
\* the frameCount of the IndexResult
C2_FrameCountMatchesStored ==
  \A s \in Slots :
    ( /\ ops[s].kind = "indexAdvanced"
      /\ ops[s].pc = "done"
      /\ ops[s].status = RETURNED
      /\ ops[s].result.success
      /\ ~ops[s].disturbed )
    => /\ getVideo(ops[s].videoId) # {}
       /\ \A v \in getVideo(ops[s].videoId) :
            /\ v.frameCount = Cardinality(EnhancedOf(ops[s].videoId))
            /\ v.frameCount = ops[s].result.frameCount

\* C2: a call has returned success for a video with three aspect rows
C2_Witness ==
  \E s \in Slots :
    /\ ops[s].kind = "indexAdvanced"
    /\ ops[s].pc = "done"
    /\ ops[s].status = RETURNED
    /\ ops[s].result.success
    /\ ~ops[s].disturbed
    /\ ops[s].result.frameCount = 3

\* C3: once deleteVideo has completed for an indexed video whose indexing
\* call had returned, no row of any table carries the videoId, getVideo
\* returns nothing and the searches restricted to the video are empty
C3_DeleteLeavesNothing ==
  \A s \in Slots :
    ( /\ ops[s].kind = "delete"
      /\ ops[s].pc = "done"
      /\ ops[s].status = RETURNED
      /\ ~ops[s].racing )
    => /\ \A v \in videos : v.id # ops[s].videoId
       /\ LegacyOf(ops[s].videoId) = {}
       /\ EnhancedOf(ops[s].videoId) = {}
       /\ getVideo(ops[s].videoId) = {}
       /\ enhancedVectorSearch(ops[s].videoId, << >>, DefaultTopK) = { {} }
       /\ vectorSearch(ops[s].videoId, DefaultTopK) = { {} }

\* C3: deleteVideo has completed for a video that was indexed with aspect
\* rows, while rows of another video are still stored
C3_Witness ==
  \E s \in Slots :
    /\ ops[s].kind = "delete"
    /\ ops[s].pc = "done"
    /\ ops[s].status = RETURNED
    /\ ~ops[s].racing
    /\ \E v \in ops[s].video : v.frameCount > 0
    /\ enhancedFrames # {}

----------------------------------------------------------------------------
(* Properties of the chat requests *)

SearchCalls == { "enhancedVectorSearch", "vectorSearch" }

IsSearch(c) == c.call \in SearchCalls

IsGeneration(c) == c.call = "generateWithSystemInstruction"

\* the chat requests whose log has begun
Chats(kinds) ==
  { s \in Slots : ops[s].kind \in kinds /\ ops[s].pc # "getVideo" }

Searches(s) == SelectSeq(ops[s].calls, IsSearch)

\* the video of the request exists: getVideo returned a record
VideoFound(s) == ops[s].calls[1].found = 1

\* the filter, the video and the limit of the i-th search of the cascade
StageCall(s, i) ==
  LET c == Searches(s)[i] IN
  /\ c.videoId = ops[s].videoId
  /\ c.limit = ops[s].k
  /\ i = 1 => c.call = "enhancedVectorSearch" /\ Len(c.aspectTypes) > 0
  /\ i = 2 => c.call = "enhancedVectorSearch" /\ c.aspectTypes = << >>
  /\ i = 3 => c.call = "vectorSearch"

\* C5: advancedChat searches in the order filtered, unfiltered, legacy, all
\* with the videoId and the limit of the request; a stage is attempted only
\* after the one before returned no row, and a request that answers has
\* either rows from its last search or three empty searches and the fixed
\* answer
C5_CascadeOrder ==
  \A s \in Chats({ "advancedChat" }) :
    LET searches == Searches(s) IN
    /\ Len(searches) <= 3
    /\ Len(searches) >= 1 => VideoFound(s)
    /\ \A i \in 1..Len(searches) :
         /\ StageCall(s, i)
         /\ i < Len(searches) => searches[i].found = 0
    /\ ops[s].pc = "enhancedVectorSearch" => Len(searches) = 0
    /\ ops[s].pc = "enhancedVectorSearchAll" => Len(searches) = 1
    /\ ops[s].pc = "vectorSearch" => Len(searches) = 2
    /\ (ops[s].pc \in { "synthesizeAdvancedAnswer", "synthesizeAnswer" }
        \/ (ops[s].pc = "done" /\ ops[s].answer = "generated"))
         => /\ Len(searches) >= 1
            /\ searches[Len(searches)].found > 0
    /\ (ops[s].pc = "done" /\ ops[s].status = RETURNED)
         => \/ ops[s].answer = "generated"
            \/ /\ ops[s].answer = NoContentAnswer
               /\ Len(searches) = 3
               /\ searches[3].found = 0

\* C5: a request was answered from the unfiltered search after the filtered
\* search returned nothing
C5_Witness ==
  \E s \in Chats({ "advancedChat" }) :
    /\ ops[s].pc = "done"
    /\ ops[s].answer = "generated"
    /\ Len(Searches(s)) = 2
    /\ Searches(s)[1].found = 0
    /\ Searches(s)[2].found > 0

\* C6: a chat request calls the text generator at most once and only after
\* a search that returned rows; when the searches all returned nothing the
\* response is the fixed answer with no sources and no generation call
C6_GenerationOnlyWithContext ==
  \A s \in Chats({ "advancedChat", "chat" }) :
    LET calls == ops[s].calls
        searches == Searches(s)
    IN
    /\ Len(SelectSeq(calls, IsGeneration)) <= 1
    /\ \A i \in 1..Len(calls) :
         IsGeneration(calls[i])
           => \E j \in 1..(i - 1) : IsSearch(calls[j]) /\ calls[j].found > 0
    /\ ( /\ ops[s].pc = "done"
         /\ ops[s].status = RETURNED
         /\ \A i \in 1..Len(searches) : searches[i].found = 0 )
       => /\ ops[s].answer = NoContentAnswer
          /\ ops[s].sources = {}
          /\ SelectSeq(calls, IsGeneration) = << >>

\* C6: a legacy chat request was answered by the text generator
C6_Witness ==
  \E s \in Chats({ "chat" }) :
    /\ ops[s].pc = "done"
    /\ ops[s].answer = "generated"
    /\ Len(SelectSeq(ops[s].calls, IsGeneration)) = 1

\* C7: advancedChat for a videoId without a VideoRecord ends with 404 and
\* has called nothing but getVideo
C7_UnknownVideoNotFound ==
  \A s \in Chats({ "advancedChat" }) :
    ( /\ ops[s].pc = "done"
      /\ \E i \in 1..Len(ops[s].calls) :
           ops[s].calls[i].call = "getVideo" /\ ops[s].calls[i].found = 0 )
    => /\ ops[s].status = NOT_FOUND
       /\ \A i \in 1..Len(ops[s].calls) : ops[s].calls[i].call = "getVideo"

\* C7: advancedChat has ended with 404 while another video is indexed
C7_Witness ==
  \E s \in Chats({ "advancedChat" }) :
    /\ ops[s].pc = "done"
    /\ ops[s].status = NOT_FOUND
    /\ videos # {}

----------------------------------------------------------------------------
(* The batch coordinator, analyzeVideoWithParallelBatches *)

BATCH_SIZE == 10

MAX_PARALLEL_BATCHES == 6

\* the longest list of extracted frames considered
MaxBatchFrames == 75

\* frames.slice(from, to): zero-based from, exclusive to, clipped at the end
Slice(frames, from, to) == SubSeq(frames, from + 1, Min(to, Len(frames)))

\* for (i = 0; i < frames.length; i += BATCH_SIZE) batches.push(frames.slice(i, i + BATCH_SIZE))
RECURSIVE SplitBatches(_, _)
SplitBatches(frames, i) ==
  IF i >= Len(frames)
    THEN << >>
    ELSE << Slice(frames, i, i + BATCH_SIZE) >> \o SplitBatches(frames, i + BATCH_SIZE)

\* batches.slice(i, i + MAX_PARALLEL_BATCHES), as one-based batch numbers
ParallelBatches(run, i) ==
  { j \in 1..Len(run.batches) : j > i /\ j <= i + MAX_PARALLEL_BATCHES }

\* parallelBatches.map(processSingleBatch): every call of the group is issued
IssueGroup(run, i) ==
  [run EXCEPT !.state = "awaiting", !.i = i,
              !.status = [j \in 1..Len(run.batches) |->
                            IF j \in ParallelBatches(run, i) THEN "inflight"
                            ELSE run.status[j]]]

\* Promise.all resolves as soon as a single promise of the group is fulfilled
GroupSettled_Any(run) ==
  \E j \in ParallelBatches(run, run.i) : run.status[j] = "done"

\* Promise.all resolves when every promise of the group is fulfilled
GroupSettled(run) ==
  \A j \in ParallelBatches(run, run.i) : run.status[j] = "done"

\* Promise.all rejects with the first rejection of the group
GroupRejects(run) ==
  \E j \in ParallelBatches(run, run.i) : run.status[j] = "failed"

InitBatches ==
  /\ StoreIdle
  /\ classifyCall = NoCall
  /\ extractCall = NoCall
  /\ mergeCall = NoCall
  /\ searchCall = NoCall
  /\ embedCall = NoCall
  /\ waitCall = NoCall
  /\ uploadReq = NoCall
  /\ globalCall = NoCall
  /\ buildCall = NoCall
  /\ chatService = NoCall
  /\ retryCall = NoCall
  /\ resolveCall = NoCall
  /\ \E n \in 0..MaxBatchFrames :
       batchRun = [state |-> "called", frames |-> [k \in 1..n |-> k],
                   batches |-> << >>, status |-> << >>, i |-> 0,
                   batchResults |-> << >>, completed |-> << >>]

\* the frames are extracted: none is an error, otherwise the batches are cut
\* and the first group is issued
AnalyzeSplit ==
  /\ batchRun.state = "called"
  /\ batchRun' =
       IF Len(batchRun.frames) = 0
         THEN [batchRun EXCEPT !.state = "threw"]
         ELSE LET batches == SplitBatches(batchRun.frames, 0)
              IN  IssueGroup([batchRun EXCEPT !.batches = batches,
                                              !.status = [j \in 1..Len(batches) |-> "pending"]],
                             0)
  /\ UNCHANGED << storeVars, classifyCall, extractCall, mergeCall, searchCall, embedCall, waitCall, uploadReq, globalCall, buildCall, chatService, retryCall, resolveCall >>

\* processSingleBatch(j): the provider answered and the answer was parsed
BatchResponded(j) ==
  /\ j \in 1..Len(batchRun.status)
  /\ batchRun.status[j] = "inflight"
  /\ batchRun' = [batchRun EXCEPT !.status[j] = "done", !.completed = Append(@, j)]
  /\ UNCHANGED << storeVars, classifyCall, extractCall, mergeCall, searchCall, embedCall, waitCall, uploadReq, globalCall, buildCall, chatService, retryCall, resolveCall >>

\* processSingleBatch(j): the provider call or the parse threw, the error is rethrown
BatchFailed(j) ==
  /\ j \in 1..Len(batchRun.status)
  /\ batchRun.status[j] = "inflight"
  /\ batchRun' = [batchRun EXCEPT !.status[j] = "failed"]
  /\ UNCHANGED << storeVars, classifyCall, extractCall, mergeCall, searchCall, embedCall, waitCall, uploadReq, globalCall, buildCall, chatService, retryCall, resolveCall >>

\* batchResults.push(...results), the results in the order the calls of the
\* group completed
PushResults_AsCompleted(run) ==
  [run EXCEPT !.batchResults =
     @ \o SelectSeq(run.completed, LAMBDA j : j \in ParallelBatches(run, run.i))]

\* batchResults.push(...results): Promise.all yields the results in the order
\* of the promises, which is the order of the batches
PushResults(run) ==
  [run EXCEPT !.batchResults =
     @ \o [k \in 1..Cardinality(ParallelBatches(run, run.i)) |-> run.i + k]]

\* await Promise.all(promises) resolves: the results are pushed in batch
\* order, then the next group is issued or the results are merged
GroupResolved ==
  /\ batchRun.state = "awaiting"
  /\ GroupSettled(batchRun)
  /\ LET pushed == PushResults(batchRun)
         next == batchRun.i + MAX_PARALLEL_BATCHES
     IN  batchRun' = IF next < Len(batchRun.batches)
                       THEN IssueGroup(pushed, next)
                       ELSE [pushed EXCEPT !.state = "returned", !.i = next]
  /\ UNCHANGED << storeVars, classifyCall, extractCall, mergeCall, searchCall, embedCall, waitCall, uploadReq, globalCall, buildCall, chatService, retryCall, resolveCall >>

\* await Promise.all(promises) rejects: the run throws, the calls still in
\* flight are left to finish on their own
GroupRejected ==
  /\ batchRun.state = "awaiting"
  /\ GroupRejects(batchRun)
  /\ batchRun' = [batchRun EXCEPT !.state = "threw"]
  /\ UNCHANGED << storeVars, classifyCall, extractCall, mergeCall, searchCall, embedCall, waitCall, uploadReq, globalCall, buildCall, chatService, retryCall, resolveCall >>

NextBatches ==
     \/ AnalyzeSplit
     \/ \E j \in 1..Len(batchRun.status) : BatchResponded(j)
     \/ \E j \in 1..Len(batchRun.status) : BatchFailed(j)
     \/ GroupResolved
     \/ GroupRejected

SpecBatches == InitBatches /\ [][NextBatches]_vars

\* the batches whose provider call is in flight
InFlight(run) == { j \in 1..Len(run.status) : run.status[j] = "inflight" }

\* the group a batch belongs to, counted from zero
GroupNumber(j) == (j - 1) \div MAX_PARALLEL_BATCHES

\* C11: during one run of the batch coordinator every batch holds at most 10
\* frames, at most 6 provider calls are in flight, and no batch of a later
\* group has been issued unless every batch of each earlier group completed.
C11_BatchGroupsBounded ==
  /\ \A j \in 1..Len(batchRun.batches) : Len(batchRun.batches[j]) <= BATCH_SIZE
  /\ Cardinality(InFlight(batchRun)) <= MAX_PARALLEL_BATCHES
  /\ \A j, k \in 1..Len(batchRun.status) :
       (GroupNumber(j) < GroupNumber(k) /\ batchRun.status[k] # "pending")
         => batchRun.status[j] = "done"

\* a run of more than 6 batches: the first group of 6 full batches is done
\* and the second group is issued, one of its calls still in flight
C11_Witness ==
  /\ batchRun.state = "awaiting"
  /\ Len(batchRun.batches) = 8
  /\ \A j \in 1..6 : batchRun.status[j] = "done" /\ Len(batchRun.batches[j]) = BATCH_SIZE
  /\ batchRun.status[7] = "inflight"
  /\ batchRun.status[8] = "done"
  /\ batchRun.batchResults = << 1, 2, 3, 4, 5, 6 >>

----------------------------------------------------------------------------
(* Properties of concurrent requests *)

\* C12: in every reachable state the videos table holds at most one
\* VideoRecord per sourceUri, whatever the interleaving of the indexing calls.
C12_OneVideoPerSourceUri ==
  \A v, w \in videos : v.sourceUri = w.sourceUri => v = w

\* C13: in every reachable state every row of the frames table and of the
\* enhanced_frames table carries the videoId of a row of the videos table,
\* also while deleteVideo interleaves with a running indexing call.
C13_NoOrphanedRecords ==
  \A f \in legacyFrames \cup enhancedFrames : getVideo(f.videoId) # {}

\* C14: an indexAdvancedVideoAnalysis call that has reached its writes, while
\* a call for a different sourceUri is being served, ends with success and
\* with exactly the rows of its own analysis stored for its video, whether
\* the tables exist or are created by the first write; it does not fail
\* unless the store fails the write on its own account.
C14_DifferentVideosIndependent ==
  [][\A s, t \in Slots :
       ( /\ s # t
         /\ ops[s].kind = "indexAdvanced"
         /\ ops[s].pc \in { "insertVideo", "insertEnhancedFrames", "getStats" }
         /\ ops[t].kind = "indexAdvanced"
         /\ ops[t].sourceUri # ops[s].sourceUri
         /\ ops'[s].pc = "done"
         /\ ~ops'[s].faulted
         /\ ~ops'[s].disturbed )
       => /\ ops'[s].result.success
          /\ { r \in enhancedFrames' : r.videoId = ops[s].videoId }
               = Range(ops[s].records)
    ]_vars

----------------------------------------------------------------------------
(* Properties of failing searches *)

\* the embedding of the query or a search of the request raised
SearchFailed(s) ==
  LET calls == ops[s].calls IN
  \/ calls[Len(calls)].call = "embed"
  \/ \E i \in 1..Len(calls) : IsSearch(calls[i]) /\ calls[i].found = Raised

\* C15: when the embedding service is not ready or a vector-store query fails
\* during advancedChat or chat, the request returns normally with an empty
\* set of sources instead of raising.
C15_SearchFailureYieldsEmpty ==
  \A s \in Chats({ "advancedChat", "chat" }) :
    (ops[s].pc = "done" /\ VideoFound(s) /\ SearchFailed(s))
      => (ops[s].status = RETURNED /\ ops[s].sources = {})

----------------------------------------------------------------------------
(* Properties of rejected and malformed input *)

\* an indexing call with an empty frame list, when isVideoIndexed answers
EmptyFramesChecked(s) ==
  /\ ops[s].kind \in IndexKinds
  /\ ops[s].pc = "isVideoIndexed"
  /\ Len(ops[s].frames) = 0
  /\ ops'[s] # ops[s]

NothingWritten ==
  UNCHANGED << videos, legacyFrames, enhancedFrames,
               videosTable, framesTable, enhancedFramesTable >>

\* C16, as stated: an indexing call given an empty frame set is rejected
\* with 400 and writes nothing to the videos table or to a frame table.
C16_EmptyFramesBadRequest ==
  [][\A s \in Slots :
       EmptyFramesChecked(s)
         => /\ ops'[s].pc = "done"
            /\ ops'[s].status = BAD_REQUEST
            /\ NothingWritten
    ]_vars

\* C16, amended: an indexing call given an empty frame set is rejected and
\* writes nothing; the rejection is 409 when isVideoIndexed reports the
\* sourceUri as indexed, because that check comes first, and 400 otherwise.
C16_EmptyFramesRejected ==
  [][\A s \in Slots :
       EmptyFramesChecked(s)
         => /\ ops'[s].pc = "done"
            /\ ops'[s].status =
                 IF isVideoIndexed(ops[s].sourceUri) THEN CONFLICT ELSE BAD_REQUEST
            /\ NothingWritten
    ]_vars

\* a call was rejected with 400 while the other request's video is stored
C16_Witness ==
  \E s, t \in Slots :
    /\ ops[s].kind = "indexAdvanced" /\ ops[s].pc = "done"
    /\ ops[s].status = BAD_REQUEST
    /\ ops[t].kind \in IndexKinds /\ ops[t].pc = "done" /\ ops[t].result.success
    /\ getVideo(ops[s].videoId) = {}

\* the frames of an analysis on which the extraction does not raise
WellFormed(frames) == SelectSeq(frames, LAMBDA f : ~FrameThrows(f))

\* C17: when some frames of an analysis are malformed (a null person entry)
\* and the others are well formed, indexAdvancedVideoAnalysis goes on with
\* the records of the well-formed frames; the malformed frames are skipped.
C17_MalformedFramesSkipped ==
  [][\A s \in Slots :
       ( /\ ops[s].kind = "indexAdvanced"
         /\ ops[s].pc = "isVideoIndexed"
         /\ ops'[s] # ops[s]
         /\ ~isVideoIndexed(ops[s].sourceUri)
         /\ embeddingReady
         /\ extractThrows(ops[s].frames)
         /\ Len(WellFormed(ops[s].frames)) > 0 )
       => /\ ops'[s].pc = "embedBatch"
          /\ ops'[s].records =
               extractAspectDescriptions(ops[s].videoId, WellFormed(ops[s].frames))
    ]_vars

\* the category of the frame is present and not empty: a list with an entry
\* (for people, a person with a populated descriptive field), an audio object
\* with speech, music or sounds, a scene with a populated field, an action text
Populated(frame, aspectType) ==
  CASE aspectType = "people" ->
         /\ frame.people.present
         /\ \E i \in 1..Len(frame.people.items) :
              Len(PersonParts(frame.people.items[i])) > 0
    [] aspectType = "objects" ->
         frame.objects.present /\ Len(frame.objects.items) > 0
    [] aspectType = "scene" ->
         frame.scene.present /\ Len(SceneParts(frame.scene)) > 0
    [] aspectType = "audio" ->
         frame.audio.present /\ Len(AudioParts(frame.audio)) > 0
    [] aspectType = "text" ->
         frame.textOnScreen.present /\ Len(frame.textOnScreen.items) > 0
    [] aspectType = "action" ->
         frame.actionDescription # ""

\* C18: the extraction emits, for every aspect category, exactly one record
\* per frame in which the category is present and not empty, and none for a
\* frame in which it is absent or empty.
C18_OneRecordPerPopulatedAspect ==
  extractCall.state = "returned" =>
    \A a \in AspectTypes :
      Cardinality({ j \in 1..Len(extractCall.records) :
                      extractCall.records[j].aspectType = a })
        = Cardinality({ i \in 1..Len(extractCall.frames) :
                          Populated(extractCall.frames[i], a) })

----------------------------------------------------------------------------
(* One call of LanceDBService.enhancedVectorSearch on a given table *)

\* the largest limit passed
MaxLimit == 2

\* the rows the enhanced_frames table may hold
SearchRows ==
  { [id |-> << v, n >>, videoId |-> v, aspectType |-> a] :
      v \in 1..2, n \in 1..1, a \in { "people", "scene", "action" } }

\* the aspectTypes option: absent or empty, one type, two types
SearchAspects == { << >>, << "people" >>, << "people", "scene" >> }

InitSearch ==
  /\ videos = {} /\ legacyFrames = {}
  /\ videosTable = FALSE /\ framesTable = FALSE
  /\ embeddingReady = FALSE
  /\ nextId = 0
  /\ ops = << >>
  /\ classifyCall = NoCall /\ extractCall = NoCall /\ mergeCall = NoCall
  /\ batchRun = NoCall
  /\ embedCall = NoCall
  /\ waitCall = NoCall
  /\ uploadReq = NoCall
  /\ globalCall = NoCall
  /\ buildCall = NoCall
  /\ chatService = NoCall
  /\ retryCall = NoCall
  /\ resolveCall = NoCall
  /\ \/ enhancedFramesTable = FALSE /\ enhancedFrames = {}
     \/ enhancedFramesTable = TRUE /\ enhancedFrames \in SUBSET SearchRows
  /\ \E videoId \in { NoVideoId, 1, 2 }, aspectTypes \in SearchAspects,
        limit \in 1..MaxLimit :
       searchCall = [state |-> "called", videoId |-> videoId,
                     aspectTypes |-> aspectTypes, limit |-> limit]

\* query.toArray() answers
SearchReturn ==
  /\ searchCall.state = "called"
  /\ \E rows \in enhancedVectorSearch(searchCall.videoId, searchCall.aspectTypes,
                                      searchCall.limit) :
       searchCall' = [searchCall EXCEPT !.state = "returned"] @@ [results |-> rows]
  /\ UNCHANGED << storeVars, classifyCall, extractCall, mergeCall, batchRun, embedCall, waitCall, uploadReq, globalCall, buildCall, chatService, retryCall, resolveCall >>

NextSearch == SearchReturn

SpecSearch == InitSearch /\ [][NextSearch]_vars

\* the row passes the videoId filter of the call
PassesVideo(r) ==
  searchCall.videoId = NoVideoId \/ r.videoId = searchCall.videoId

\* the row passes the aspectTypes filter of the call
PassesAspects(r) ==
  Len(searchCall.aspectTypes) = 0 \/ r.aspectType \in Range(searchCall.aspectTypes)

----------------------------------------------------------------------------
(* One call of EmbeddingService.embedBatch *)

batchSize == 32

embeddingDim == 384

\* the most texts passed to one call
MaxTexts == 65

\* output dimension of the model named by EMBEDDING_MODEL: 384 for the
\* default all-MiniLM-L6-v2, 768 for a model such as all-mpnet-base-v2
ModelDimensions == { 384, 768 }

\* data.slice(start, end) of the flat output of one extractor call, given by
\* the chunk it belongs to and the positions it covers, clipped at the length
DataSlice(chunk, length, start, end) ==
  [chunk |-> chunk, from |-> Min(start, length), to |-> Min(end, length)]

\* the vectors pushed after the extractor answered for texts.slice(i, i + batchSize):
\* the output holds batch.length * dim numbers, text after text
PushedVectors(n, dim, i) ==
  LET batch == Min(i + batchSize, n) - i
  IN  [ k \in 1..batch |->
          DataSlice(i, batch * dim, (k - 1) * embeddingDim,
                    (k - 1) * embeddingDim + embeddingDim) ]

\* the numbers the model produced for the text at zero-based position p
EmbeddingOf(dim, p) ==
  LET i == (p \div batchSize) * batchSize
      j == p - i
  IN  [chunk |-> i, from |-> j * dim, to |-> j * dim + dim]

InitEmbed ==
  /\ videos = {} /\ legacyFrames = {} /\ enhancedFrames = {}
  /\ videosTable = FALSE /\ framesTable = FALSE /\ enhancedFramesTable = FALSE
  /\ embeddingReady \in BOOLEAN
  /\ nextId = 0
  /\ ops = << >>
  /\ classifyCall = NoCall /\ extractCall = NoCall /\ mergeCall = NoCall
  /\ batchRun = NoCall /\ searchCall = NoCall
  /\ waitCall = NoCall
  /\ uploadReq = NoCall
  /\ globalCall = NoCall
  /\ buildCall = NoCall
  /\ chatService = NoCall
  /\ retryCall = NoCall
  /\ resolveCall = NoCall
  /\ \E n \in 0..MaxTexts, dim \in ModelDimensions :
       embedCall = [state |-> "called", texts |-> n, dim |-> dim, i |-> 0,
                    embeddings |-> << >>, inFlight |-> {}]

\* embedBatch is called: not ready raises, no text returns [], otherwise the
\* extractor is called for the first chunk
EmbedBatchCalled ==
  /\ embedCall.state = "called"
  /\ embedCall' =
       IF ~embeddingReady THEN [embedCall EXCEPT !.state = "threw"]
       ELSE IF embedCall.texts = 0 THEN [embedCall EXCEPT !.state = "returned"]
       ELSE [embedCall EXCEPT !.state = "awaiting", !.inFlight = { 0 }]
  /\ UNCHANGED << storeVars, classifyCall, extractCall, mergeCall, batchRun, searchCall, waitCall, uploadReq, globalCall, buildCall, chatService, retryCall, resolveCall >>

\* the extractor answers for the chunk at i: its vectors are pushed, then the
\* next chunk is passed to the extractor or the embeddings are returned
EmbedBatchExtracted ==
  /\ embedCall.state = "awaiting"
  /\ LET pushed == embedCall.embeddings
                     \o PushedVectors(embedCall.texts, embedCall.dim, embedCall.i)
         next == embedCall.i + batchSize
     IN  embedCall' =
           IF next < embedCall.texts
             THEN [embedCall EXCEPT !.embeddings = pushed, !.i = next,
                                    !.inFlight = { next }]
             ELSE [embedCall EXCEPT !.embeddings = pushed, !.i = next,
                                    !.inFlight = {}, !.state = "returned"]
  /\ UNCHANGED << storeVars, classifyCall, extractCall, mergeCall, batchRun, searchCall, waitCall, uploadReq, globalCall, buildCall, chatService, retryCall, resolveCall >>

\* the extractor raises: the error is logged and rethrown
EmbedBatchFailed ==
  /\ embedCall.state = "awaiting"
  /\ embedCall' = [embedCall EXCEPT !.state = "threw", !.inFlight = {}]
  /\ UNCHANGED << storeVars, classifyCall, extractCall, mergeCall, batchRun, searchCall, waitCall, uploadReq, globalCall, buildCall, chatService, retryCall, resolveCall >>

NextEmbed ==
     \/ EmbedBatchCalled
     \/ EmbedBatchExtracted
     \/ EmbedBatchFailed

SpecEmbed == InitEmbed /\ [][NextEmbed]_vars

\* C21: embedBatch returns as many vectors as it was given texts, the i-th
\* vector being the embedding of the i-th text, and at most one extractor
\* call of the run is in flight at any time.
C21_EmbedBatchOrdered ==
  /\ Cardinality(embedCall.inFlight) <= 1
  /\ embedCall.state = "returned" =>
       /\ Len(embedCall.embeddings) = embedCall.texts
       /\ \A k \in 1..embedCall.texts :
            embedCall.embeddings[k] = EmbeddingOf(embedCall.dim, k - 1)

\* the same for the model the slicing is written for, of dimension 384
C21_DefaultModelOrdered ==
  embedCall.dim = embeddingDim => C21_EmbedBatchOrdered

\* EmbeddingService.embed: Array.from(output.data), the whole output for one text
embed(dim) == DataSlice(0, dim, 0, dim)

VectorLength(v) == v.to - v.from

\* C22: the vectors embedBatch hands to indexing all have one dimension, the
\* dimension of the query vectors embed produces with the same model; a call
\* that would produce vectors of another dimension raises instead.
C22_OneVectorDimension ==
  embedCall.state = "returned" =>
    \A k \in 1..Len(embedCall.embeddings) :
      VectorLength(embedCall.embeddings[k]) = VectorLength(embed(embedCall.dim))

----------------------------------------------------------------------------
(* Properties of requests by caller-supplied id *)

\* C23: deleteIndexedVideo for a videoId that no VideoRecord carries ends
\* with 404 and leaves the videos, frames and enhanced_frames tables as they
\* are.
C23_DeleteUnknownNotFound ==
  [][\A s \in Slots :
       ( /\ ops[s].kind = "delete"
         /\ ops[s].pc = "getVideo"
         /\ ops'[s] # ops[s]
         /\ \A v \in videos : v.id # ops[s].videoId )
       => /\ ops'[s].pc = "done"
          /\ ops'[s].status = NOT_FOUND
          /\ NothingWritten
    ]_vars

\* the same for the ids that are interpolated as one quoted literal
C23_DeleteUnknownPlainId ==
  [][\A s \in Slots :
       ( /\ ops[s].kind = "delete"
         /\ ops[s].pc = "getVideo"
         /\ ops'[s] # ops[s]
         /\ ops[s].videoId # AnyRowId
         /\ \A v \in videos : v.id # ops[s].videoId )
       => /\ ops'[s].pc = "done"
          /\ ops'[s].status = NOT_FOUND
          /\ NothingWritten
    ]_vars

\* ---------------------------------------------------------------------------
\* Waiting for an uploaded file: FileManagerService.waitForActive
\* ---------------------------------------------------------------------------

\* Largest configured MAX_POLL_ATTEMPTS explored.
MaxPollAttempts == 4

UNPROCESSABLE_ENTITY == 422
REQUEST_TIMEOUT == 408

\* What one filesApi.get can do: answer with a file state, or throw.
PollOutcomes == { "ACTIVE", "PROCESSING", "FAILED", "OTHER", "throws" }

\* mapFileState: anything but the three known states is STATE_UNSPECIFIED.
mapFileState(state) ==
  IF state \in { "ACTIVE", "PROCESSING", "FAILED" } THEN state ELSE "STATE_UNSPECIFIED"

\* The head of the while loop: one more attempt, or FileProcessingTimeoutError.
WaitLoop(call) ==
  IF call.attempts < call.maxPollAttempts
  THEN [call EXCEPT !.state = "polling", !.attempts = @ + 1]
  ELSE [call EXCEPT !.state = "threw", !.status = REQUEST_TIMEOUT]

InitWait ==
  /\ StoreIdle
  /\ classifyCall = NoCall /\ extractCall = NoCall /\ mergeCall = NoCall
  /\ batchRun = NoCall /\ searchCall = NoCall /\ embedCall = NoCall
  /\ uploadReq = NoCall
  /\ globalCall = NoCall
  /\ buildCall = NoCall
  /\ chatService = NoCall
  /\ retryCall = NoCall
  /\ resolveCall = NoCall
  /\ \E m \in 0..MaxPollAttempts :
       waitCall = [ state |-> "called", maxPollAttempts |-> m, attempts |-> 0,
                    polls |-> << >>, status |-> 0 ]

\* waitForActive runs up to its first await.
WaitCalled ==
  /\ waitCall.state = "called"
  /\ waitCall' = WaitLoop(waitCall)
  /\ UNCHANGED << storeVars, classifyCall, extractCall, mergeCall, batchRun, searchCall, embedCall, uploadReq, globalCall, buildCall, chatService, retryCall, resolveCall >>

\* The catch clause: a FileProcessingError is rethrown, anything else sleeps.
WaitCaught_Rethrows(call) == [call EXCEPT !.state = "threw", !.status = INTERNAL_SERVER_ERROR]

WaitCaught(call) == [call EXCEPT !.state = "sleeping"]

\* filesApi.get settles.
WaitPolled ==
  /\ waitCall.state = "polling"
  /\ \E outcome \in PollOutcomes :
       LET call == [waitCall EXCEPT !.polls = Append(@, outcome)]
       IN  waitCall' =
             IF outcome = "throws" THEN WaitCaught(call)
             ELSE IF mapFileState(outcome) = "ACTIVE" THEN [call EXCEPT !.state = "returned"]
             ELSE IF mapFileState(outcome) = "FAILED"
                  THEN [call EXCEPT !.state = "threw", !.status = UNPROCESSABLE_ENTITY]
             ELSE [call EXCEPT !.state = "sleeping"]
  /\ UNCHANGED << storeVars, classifyCall, extractCall, mergeCall, batchRun, searchCall, embedCall, uploadReq, globalCall, buildCall, chatService, retryCall, resolveCall >>

\* sleep(pollIntervalMs) resolves and the loop goes round.
WaitSlept ==
  /\ waitCall.state = "sleeping"
  /\ waitCall' = WaitLoop(waitCall)
  /\ UNCHANGED << storeVars, classifyCall, extractCall, mergeCall, batchRun, searchCall, embedCall, uploadReq, globalCall, buildCall, chatService, retryCall, resolveCall >>

NextWait ==
  \/ WaitCalled
  \/ WaitPolled
  \/ WaitSlept

SpecWait == InitWait /\ [][NextWait]_vars

\* Every awaited promise of the loop settles: the provider call answers or
\* throws, and the timer fires.
SpecWaitFair == SpecWait /\ WF_vars(NextWait)

WaitEnded == waitCall.state \in { "returned", "threw" }

\* No poll before the last one reported ACTIVE or FAILED.
NoEarlierEnd(polls) ==
  \A k \in 1..(Len(polls) - 1) : polls[k] \notin { "ACTIVE", "FAILED" }

WaitOutcomeRight ==
  /\ Len(waitCall.polls) = waitCall.attempts - (IF waitCall.state = "polling" THEN 1 ELSE 0)
  /\ waitCall.attempts <= waitCall.maxPollAttempts
  /\ NoEarlierEnd(waitCall.polls)
  /\ waitCall.state = "returned" =>
       /\ waitCall.polls # << >>
       /\ waitCall.polls[Len(waitCall.polls)] = "ACTIVE"
  /\ (waitCall.state = "threw" /\ waitCall.status = UNPROCESSABLE_ENTITY) =>
       /\ waitCall.polls # << >>
       /\ waitCall.polls[Len(waitCall.polls)] = "FAILED"
  /\ waitCall.state = "threw" =>
       \/ waitCall.status = UNPROCESSABLE_ENTITY
       \/ /\ waitCall.status = REQUEST_TIMEOUT
          /\ Len(waitCall.polls) = waitCall.maxPollAttempts
          /\ \A k \in 1..Len(waitCall.polls) : waitCall.polls[k] \notin { "ACTIVE", "FAILED" }
  /\ (waitCall.polls # << >> /\ waitCall.polls[Len(waitCall.polls)] \in { "ACTIVE", "FAILED" }) =>
       WaitEnded

\* C24: waitForActive ends after at most maxPollAttempts polls with exactly
\* one outcome: it returns at the first poll that reports ACTIVE, throws
\* FileProcessingError (422) at the first poll that reports FAILED, and throws
\* FileProcessingTimeoutError (408) once maxPollAttempts polls saw neither; a
\* poll that throws counts as one attempt and does not end the wait.
C24_WaitForActiveTerminates == [] WaitOutcomeRight /\ <> WaitEnded

\* C24 witness: the wait timed out after every poll allowed, some of which
\* threw and some of which reported a file still being processed.
C24_Witness ==
  /\ waitCall.state = "threw"
  /\ waitCall.status = REQUEST_TIMEOUT
  /\ waitCall.maxPollAttempts = MaxPollAttempts
  /\ \E k \in 1..Len(waitCall.polls) : waitCall.polls[k] = "throws"
  /\ \E k \in 1..Len(waitCall.polls) : waitCall.polls[k] = "PROCESSING"

\* ---------------------------------------------------------------------------
\* Requests that upload a file: LanceDBController.indexVideo and
\* VideoAnalyzeService.analyzeVideoFile
\* ---------------------------------------------------------------------------

UploadHandlers == { "indexVideo", "analyzeVideoFile" }

\* The name the provider gives the uploaded file.
UploadedName == "files/1"

InitUpload ==
  /\ StoreIdle
  /\ classifyCall = NoCall /\ extractCall = NoCall /\ mergeCall = NoCall
  /\ batchRun = NoCall /\ searchCall = NoCall /\ embedCall = NoCall
  /\ waitCall = NoCall
  /\ globalCall = NoCall
  /\ buildCall = NoCall
  /\ chatService = NoCall
  /\ retryCall = NoCall
  /\ resolveCall = NoCall
  /\ \E h \in UploadHandlers, m \in 0..MaxPollAttempts :
       uploadReq = [ state |-> "called", handler |-> h, maxPollAttempts |-> m,
                     pc |-> "upload", fileMetadata |-> NoValue, providerFiles |-> {},
                     failed |-> FALSE, deleteFailed |-> FALSE ]

\* uploadAndWaitForActive threw: indexVideo goes to its finally clause with
\* fileMetadata still null, analyzeVideoFile has not entered its try block.
UploadThrew(req) ==
  IF req.handler = "indexVideo"
  THEN [req EXCEPT !.pc = "finally", !.failed = TRUE]
  ELSE [req EXCEPT !.pc = "finished", !.state = "returned", !.failed = TRUE]

\* uploadAndWaitForActive returned the metadata of the file.
UploadReturned(req) == [req EXCEPT !.pc = "analysis", !.fileMetadata = UploadedName]

\* uploadVideo settles: the provider stored the file and reports its state,
\* or the upload failed.
UploadVideoSettled ==
  /\ uploadReq.state = "called" /\ uploadReq.pc = "upload"
  /\ \/ /\ uploadReq' = UploadThrew(uploadReq)
        /\ UNCHANGED waitCall
     \/ \E state \in { "ACTIVE", "PROCESSING", "FAILED", "OTHER" } :
          LET req == [uploadReq EXCEPT !.providerFiles = @ \cup { UploadedName }]
          IN  IF mapFileState(state) = "ACTIVE"
              THEN /\ uploadReq' = UploadReturned(req)
                   /\ UNCHANGED waitCall
              ELSE /\ uploadReq' = [req EXCEPT !.pc = "waiting"]
                   /\ waitCall' = [ state |-> "called",
                                    maxPollAttempts |-> uploadReq.maxPollAttempts,
                                    attempts |-> 0, polls |-> << >>, status |-> 0 ]
  /\ UNCHANGED << storeVars, classifyCall, extractCall, mergeCall, batchRun, searchCall, embedCall, globalCall, buildCall, chatService, retryCall, resolveCall >>

\* waitForActive settles and uploadAndWaitForActive with it.
UploadWaitSettled ==
  /\ uploadReq.state = "called" /\ uploadReq.pc = "waiting"
  /\ WaitEnded
  /\ uploadReq' = IF waitCall.state = "returned" THEN UploadReturned(uploadReq)
                  ELSE UploadThrew(uploadReq)
  /\ waitCall' = NoCall
  /\ UNCHANGED << storeVars, classifyCall, extractCall, mergeCall, batchRun, searchCall, embedCall, globalCall, buildCall, chatService, retryCall, resolveCall >>

\* analyzeForIndexing or analyzeByFileUri settles.
UploadAnalysisSettled ==
  /\ uploadReq.state = "called" /\ uploadReq.pc = "analysis"
  /\ \E ok \in BOOLEAN :
       uploadReq' = IF ok /\ uploadReq.handler = "indexVideo"
                    THEN [uploadReq EXCEPT !.pc = "indexing"]
                    ELSE [uploadReq EXCEPT !.pc = "finally", !.failed = ~ok]
  /\ UNCHANGED << storeVars, classifyCall, extractCall, mergeCall, batchRun, searchCall, embedCall, waitCall, globalCall, buildCall, chatService, retryCall, resolveCall >>

\* indexVideoAnalysis settles.
UploadIndexingSettled ==
  /\ uploadReq.state = "called" /\ uploadReq.pc = "indexing"
  /\ \E ok \in BOOLEAN :
       uploadReq' = [uploadReq EXCEPT !.pc = "finally", !.failed = ~ok]
  /\ UNCHANGED << storeVars, classifyCall, extractCall, mergeCall, batchRun, searchCall, embedCall, waitCall, globalCall, buildCall, chatService, retryCall, resolveCall >>

\* The finally clause: deleteFile is called when the handler holds the file's
\* metadata, and its failure is logged and swallowed.
UploadCleanedUp ==
  /\ uploadReq.state = "called" /\ uploadReq.pc = "finally"
  /\ IF uploadReq.fileMetadata = NoValue
     THEN uploadReq' = [uploadReq EXCEPT !.pc = "finished", !.state = "returned"]
     ELSE \E ok \in BOOLEAN :
            uploadReq' = [uploadReq EXCEPT
                            !.pc = "finished", !.state = "returned",
                            !.deleteFailed = ~ok,
                            !.providerFiles = IF ok THEN @ \ { uploadReq.fileMetadata } ELSE @]
  /\ UNCHANGED << storeVars, classifyCall, extractCall, mergeCall, batchRun, searchCall, embedCall, waitCall, globalCall, buildCall, chatService, retryCall, resolveCall >>

WaitCalledForUpload == WaitCalled /\ UNCHANGED uploadReq
WaitPolledForUpload == WaitPolled /\ UNCHANGED uploadReq
WaitSleptForUpload == WaitSlept /\ UNCHANGED uploadReq

NextUpload ==
  \/ UploadVideoSettled
  \/ WaitCalledForUpload
  \/ WaitPolledForUpload
  \/ WaitSleptForUpload
  \/ UploadWaitSettled
  \/ UploadAnalysisSettled
  \/ UploadIndexingSettled
  \/ UploadCleanedUp

SpecUpload == InitUpload /\ [][NextUpload]_vars

\* C25: every file a request uploaded is gone from the provider when the
\* request finishes, whether it succeeded or failed after the upload (while
\* waiting for the file, in analysis or in indexing), as long as the provider
\* carried out the deletion it was asked for.
C25_UploadedFileDeleted ==
  (uploadReq.state = "returned" /\ ~uploadReq.deleteFailed) => uploadReq.providerFiles = {}

\* C25 auxiliary: a request that got the file's metadata back and whose
\* deletion the provider carried out leaves no file behind.
C25_DeletedOnceActive ==
  (uploadReq.state = "returned" /\ uploadReq.fileMetadata # NoValue /\ ~uploadReq.deleteFailed)
    => uploadReq.providerFiles = {}

\* ---------------------------------------------------------------------------
\* Properties of the merged result of a batch run
\* ---------------------------------------------------------------------------

\* The calls of a run did not complete in the order of their batches.
CompletedOutOfOrder(run) ==
  \E a, b \in 1..Len(run.completed) : a < b /\ run.completed[a] > run.completed[b]

\* C26: the list of per-batch results handed to mergeAdvancedResults, of which
\* the merged frames, summary, confidence and token usage are a function, holds
\* the result of batch j at position j whatever the order in which the
\* concurrently issued calls completed.
C26_MergeInputInBatchOrder ==
  batchRun.state = "returned" =>
    batchRun.batchResults = [j \in 1..Len(batchRun.batches) |-> j]

\* C26 witness: a run of two groups returned although calls of its first
\* group and of its second group completed out of batch order.
C26_Witness ==
  /\ batchRun.state = "returned"
  /\ Len(batchRun.batches) > MAX_PARALLEL_BATCHES
  /\ CompletedOutOfOrder(batchRun)
  /\ batchRun.completed[1] # 1
  /\ batchRun.completed[Len(batchRun.completed)] # Len(batchRun.batches)

\* ---------------------------------------------------------------------------
\* Global search: RAGChatService.advancedGlobalSearch and globalSearch
\* ---------------------------------------------------------------------------

GlobalHandlers == { "advancedGlobalSearch", "globalSearch" }

\* "who" names the people aspect, "asdkj" no aspect at all.
GlobalQueries == { << "w", "h", "o" >>, << "a", "s", "d", "k", "j" >> }

\* The rows the enhanced_frames table may hold.
GlobalRows ==
  { [id |-> << v, n >>, videoId |-> v, aspectType |-> "people"] : v \in 1..2, n \in 1..2 }
    \cup { [id |-> << v, 3 >>, videoId |-> v, aspectType |-> "action"] : v \in 1..2 }

\* The rows the frames table may hold.
GlobalLegacyRows == { [id |-> << v, n >>, videoId |-> v] : v \in 1..2, n \in 1..2 }

GlobalVideos == { [id |-> 1, sourceUri |-> "a", frameCount |-> 3] }

InitGlobal ==
  /\ nextId = 0
  /\ ops = << >>
  /\ embeddingReady \in BOOLEAN
  /\ \/ videosTable = FALSE /\ videos = {}
     \/ videosTable = TRUE /\ videos = GlobalVideos
  /\ classifyCall = NoCall /\ extractCall = NoCall /\ mergeCall = NoCall
  /\ batchRun = NoCall /\ searchCall = NoCall /\ embedCall = NoCall
  /\ waitCall = NoCall /\ uploadReq = NoCall
  /\ buildCall = NoCall
  /\ chatService = NoCall
  /\ retryCall = NoCall
  /\ resolveCall = NoCall
  /\ \E h \in GlobalHandlers, q \in GlobalQueries, topK \in { AbsentTopK } \cup 1..MaxLimit :
       /\ globalCall = [ state |-> "called", handler |-> h, query |-> q, topK |-> topK,
                         pc |-> "embed", frames |-> {}, lookups |-> {},
                         videoCache |-> << >>, getVideoCalls |-> << >>,
                         searches |-> << >>, status |-> RETURNED ]
       /\ IF h = "advancedGlobalSearch"
          THEN /\ framesTable = FALSE /\ legacyFrames = {}
               /\ enhancedFramesTable = TRUE /\ enhancedFrames \in SUBSET GlobalRows
          ELSE /\ enhancedFramesTable = FALSE /\ enhancedFrames = {}
               /\ framesTable = TRUE /\ legacyFrames \in SUBSET GlobalLegacyRows

\* The catch clause of both handlers: any error becomes HTTP 500.
GlobalThrew(call) ==
  [call EXCEPT !.state = "threw", !.pc = "done", !.status = INTERNAL_SERVER_ERROR]

\* topK || defaultTopK * 3, or * 2 in globalSearch
GlobalK(call) ==
  IF call.topK # AbsentTopK THEN call.topK
  ELSE IF call.handler = "advancedGlobalSearch" THEN DefaultTopK * 3 ELSE DefaultTopK * 2

\* embeddingService.embed settles.
GlobalEmbedded ==
  /\ globalCall.state = "called" /\ globalCall.pc = "embed"
  /\ \E ok \in BOOLEAN :
       globalCall' = IF embeddingReady /\ ok THEN [globalCall EXCEPT !.pc = "search"]
                     ELSE GlobalThrew(globalCall)
  /\ UNCHANGED << storeVars, classifyCall, extractCall, mergeCall, batchRun, searchCall, embedCall, waitCall, uploadReq, buildCall, chatService, retryCall, resolveCall >>

\* frames.map(async f => ...): every callback runs up to its first await
\* before any of them resumes, so each tests the cache as it is now and calls
\* getVideo when its videoId is not in it.
StartLookups(call, frames) ==
  LET missing == { f \in frames : f.videoId \notin DOMAIN call.videoCache }
  IN  [call EXCEPT !.pc = "titles", !.frames = frames, !.lookups = missing,
                   !.getVideoCalls = [v \in { f.videoId : f \in missing } |->
                                        Cardinality({ f \in missing : f.videoId = v })]]

\* The search settles, and the callbacks over its rows are started.
GlobalSearched ==
  /\ globalCall.state = "called" /\ globalCall.pc = "search"
  /\ \/ globalCall' = GlobalThrew(globalCall)
     \/ LET aspects == IF globalCall.handler = "advancedGlobalSearch"
                       THEN classifyQuery(globalCall.query).aspects ELSE << >>
            found == IF globalCall.handler = "advancedGlobalSearch"
                     THEN enhancedVectorSearch(NoVideoId, aspects, GlobalK(globalCall))
                     ELSE vectorSearch(NoVideoId, GlobalK(globalCall))
        IN  \E rows \in found :
              globalCall' = StartLookups(
                              [globalCall EXCEPT !.searches = Append(@, aspects)], rows)
  /\ UNCHANGED << storeVars, classifyCall, extractCall, mergeCall, batchRun, searchCall, embedCall, waitCall, uploadReq, buildCall, chatService, retryCall, resolveCall >>

\* getVideo settles for the callback of row f: the title, or 'Unknown', is
\* put into the cache; a getVideo that throws rejects Promise.all.
GlobalGotVideo(f) ==
  /\ globalCall.state = "called" /\ globalCall.pc = "titles"
  /\ f \in globalCall.lookups
  /\ \/ globalCall' = GlobalThrew(globalCall)
     \/ LET title == IF getVideo(f.videoId) = {} THEN "Unknown" ELSE "title"
        IN  globalCall' =
              [globalCall EXCEPT
                 !.lookups = @ \ { f },
                 !.videoCache = [v \in DOMAIN @ \cup { f.videoId } |->
                                   IF v = f.videoId THEN title ELSE @[v]]]
  /\ UNCHANGED << storeVars, classifyCall, extractCall, mergeCall, batchRun, searchCall, embedCall, waitCall, uploadReq, buildCall, chatService, retryCall, resolveCall >>

\* Promise.all resolves and the results are returned.
GlobalReturned ==
  /\ globalCall.state = "called" /\ globalCall.pc = "titles"
  /\ globalCall.lookups = {}
  /\ globalCall' = [globalCall EXCEPT !.state = "returned", !.pc = "done"]
  /\ UNCHANGED << storeVars, classifyCall, extractCall, mergeCall, batchRun, searchCall, embedCall, waitCall, uploadReq, buildCall, chatService, retryCall, resolveCall >>

NextGlobal ==
  \/ GlobalEmbedded
  \/ GlobalSearched
  \/ \E f \in GlobalRows \cup GlobalLegacyRows : GlobalGotVideo(f)
  \/ GlobalReturned

SpecGlobal == InitGlobal /\ [][NextGlobal]_vars

\* C27: within one global search call getVideo is invoked at most once for
\* each videoId among the results.
C27_OneLookupPerVideo ==
  \A v \in DOMAIN globalCall.getVideoCalls : globalCall.getVideoCalls[v] <= 1

\* C27 auxiliary: getVideo is invoked once for each result, whatever videoIds
\* the results share.
C27_OneLookupPerResult ==
  globalCall.pc \in { "titles", "done" } /\ globalCall.searches # << >> =>
    \A v \in { f.videoId : f \in globalCall.frames } :
      /\ v \in DOMAIN globalCall.getVideoCalls
      /\ globalCall.getVideoCalls[v] = Cardinality({ f \in globalCall.frames : f.videoId = v })

\* C29: a global search whose aspect-filtered search found no row, while the
\* table holds rows, returns an empty result only after an unfiltered search
\* was attempted.
C29_GlobalFallbackSearch ==
  ( /\ globalCall.state = "returned"
    /\ globalCall.handler = "advancedGlobalSearch"
    /\ globalCall.frames = {}
    /\ enhancedFrames # {} )
    => \E n \in 1..Len(globalCall.searches) : globalCall.searches[n] = << >>

\* C29 auxiliary: advancedGlobalSearch searches once, with the aspects of the
\* classification as filter.
C29_GlobalSearchesOnce ==
  ( globalCall.state = "returned" /\ globalCall.handler = "advancedGlobalSearch" )
    => globalCall.searches = << classifyQuery(globalCall.query).aspects >>

\* ---------------------------------------------------------------------------
\* Properties of indexing without an embedding provider
\* ---------------------------------------------------------------------------

\* The indexing call of slot s goes from the answer of isVideoIndexed up to
\* its call of embedBatch while the provider is not ready.
CheckedNotReady(s) ==
  /\ ops[s].kind \in IndexKinds
  /\ ops[s].pc = "isVideoIndexed"
  /\ ops'[s] # ops[s]
  /\ ~embeddingReady

\* C28: an indexing call made while the embedding provider is not ready ends
\* there without success (success false, or rejected with an HTTP error) and
\* writes no VideoRecord and no frame or aspect record.
C28_NotReadyWritesNothing ==
  [][\A s \in Slots :
       CheckedNotReady(s)
         => /\ ops'[s].pc = "done"
            /\ ops'[s].status # RETURNED \/ ~ops'[s].result.success
            /\ NothingWritten
    ]_vars

\* C28 witness: a call given frames for a new sourceUri reported success
\* false without any write of its own failing, the provider is not ready,
\* and the tables are empty.
C28_Witness ==
  \E s \in Slots :
    /\ ops[s].kind = "index" /\ ops[s].pc = "done"
    /\ ops[s].status = RETURNED /\ ~ops[s].result.success
    /\ ~ops[s].faulted
    /\ ~embeddingReady
    /\ videos = {} /\ legacyFrames = {} /\ enhancedFrames = {}

\* ---------------------------------------------------------------------------
\* The end of indexAdvancedVideoAnalysis: getStats and createIndex
\* ---------------------------------------------------------------------------

\* Rows from which an index is built.
IndexThreshold == 256

\* Row counts on both sides of the threshold.
RowCounts == { 1, IndexThreshold - 1, IndexThreshold, IndexThreshold + 1 }

\* Largest number of records one call inserted.
MaxInserted == 2

\* The call has been through the inserts: the videos and enhanced_frames
\* handles are set, the frames handle is set when legacy rows were ever
\* written.
InitBuild ==
  /\ StoreIdle
  /\ classifyCall = NoCall /\ extractCall = NoCall /\ mergeCall = NoCall
  /\ batchRun = NoCall /\ searchCall = NoCall /\ embedCall = NoCall
  /\ waitCall = NoCall /\ uploadReq = NoCall /\ globalCall = NoCall
  /\ chatService = NoCall
  /\ retryCall = NoCall
  /\ resolveCall = NoCall
  /\ \E n \in 1..MaxInserted, legacy \in { 0 } \cup RowCounts, enhanced \in RowCounts :
       /\ enhanced >= n
       /\ buildCall = [ state |-> "called", pc |-> "stats.videos", inserted |-> n,
                        framesTable |-> (legacy > 0), frameCount |-> legacy,
                        enhancedFrameCount |-> enhanced, stats |-> 0,
                        attempted |-> {}, countFailed |-> FALSE, buildFailed |-> FALSE,
                        result |-> NoResult ]

\* The await the call reaches next after 'pc', skipping what the code skips:
\* a table without handle is not counted, createIndex is called only for
\* stats.enhancedFrameCount >= 256, and a table is indexed only from 256 rows.
RECURSIVE BuildNext(_, _)
BuildNext(call, pc) ==
  LET next == CASE pc = "stats.videos" -> "stats.frames"
                [] pc = "stats.frames" -> "stats.enhanced"
                [] pc = "stats.enhanced" -> "index.framesCount"
                [] pc = "index.framesCount" -> "index.framesBuild"
                [] pc = "index.framesBuild" -> "index.enhancedCount"
                [] pc = "index.enhancedCount" -> "index.enhancedBuild"
                [] OTHER -> "return"
      skipped ==
        CASE next = "stats.frames" -> ~call.framesTable
          [] next = "index.framesCount" -> ~call.framesTable
          [] next = "index.framesBuild" ->
               ~call.framesTable \/ call.frameCount < IndexThreshold
          [] next = "index.enhancedBuild" -> call.enhancedFrameCount < IndexThreshold
          [] OTHER -> FALSE
  IN  IF pc = "stats.enhanced" /\ call.stats < IndexThreshold THEN "return"
      ELSE IF next = "return" \/ ~skipped THEN next
      ELSE BuildNext(call, next)

\* The step of the call after the await 'pc' settled without error.
BuildAdvance(call) ==
  LET next == BuildNext(call, call.pc)
  IN  IF next = "return"
      THEN [call EXCEPT !.state = "returned", !.pc = "done",
                        !.result = IndexSuccess(call.inserted)]
      ELSE [call EXCEPT !.pc = next]

\* The catch block of indexAdvancedVideoAnalysis.
BuildCaught(call) ==
  [call EXCEPT !.state = "returned", !.pc = "done", !.result = IndexFailure]

\* countRows throws: neither getStats nor createIndex catches it.
BuildCountFailed(call) == BuildCaught([call EXCEPT !.countFailed = TRUE])

\* table.countRows() settles.
BuildCounted ==
  /\ buildCall.state = "called"
  /\ buildCall.pc \in { "stats.videos", "stats.frames", "stats.enhanced",
                        "index.framesCount", "index.enhancedCount" }
  /\ \E ok \in BOOLEAN :
       buildCall' =
         IF ~ok THEN BuildCountFailed(buildCall)
         ELSE BuildAdvance(IF buildCall.pc = "stats.enhanced"
                           THEN [buildCall EXCEPT !.stats = buildCall.enhancedFrameCount]
                           ELSE buildCall)
  /\ UNCHANGED << storeVars, classifyCall, extractCall, mergeCall, batchRun, searchCall, embedCall, waitCall, uploadReq, globalCall, chatService, retryCall, resolveCall >>

\* table.createIndex('vector', ...) settles; its error is logged only.
BuildIndexed ==
  /\ buildCall.state = "called"
  /\ buildCall.pc \in { "index.framesBuild", "index.enhancedBuild" }
  /\ \E ok \in BOOLEAN :
       buildCall' = BuildAdvance([buildCall EXCEPT
                                    !.attempted = @ \cup { buildCall.pc },
                                    !.buildFailed = @ \/ ~ok])
  /\ UNCHANGED << storeVars, classifyCall, extractCall, mergeCall, batchRun, searchCall, embedCall, waitCall, uploadReq, globalCall, chatService, retryCall, resolveCall >>

NextBuild ==
  \/ BuildCounted
  \/ BuildIndexed

SpecBuild == InitBuild /\ [][NextBuild]_vars

\* The outcome the claim describes: the enhanced_frames index build was
\* attempted exactly from the threshold on, and the call reports success with
\* the number of records it inserted.
BuildOutcomeRight ==
  /\ "index.enhancedBuild" \in buildCall.attempted
       <=> buildCall.enhancedFrameCount >= IndexThreshold
  /\ buildCall.result = IndexSuccess(buildCall.inserted)

\* C30: once the records are inserted, an index build is attempted if and
\* only if the enhanced-frame count is at least 256, and the call reports
\* success with its record count whether or not the row-count query or the
\* index build succeeds.
C30_IndexBuildNeverChangesOutcome ==
  buildCall.state = "returned" => BuildOutcomeRight

\* C30 auxiliary: the same when no row-count query failed, failing index
\* builds included.
C30_IndexBuildFailureTolerated ==
  (buildCall.state = "returned" /\ ~buildCall.countFailed) => BuildOutcomeRight

\* ---------------------------------------------------------------------------
\* Properties of the merged token usage
\* ---------------------------------------------------------------------------

\* The batch results that carry a tokenUsage.
Reported(results) == { i \in 1..Len(results) : results[i].tokenUsage.present }

RECURSIVE SumOver(_, _, _)
\* The sum of a tokenUsage field over the batches named in 'which'.
SumOver(results, which, field) ==
  IF which = {} THEN 0
  ELSE LET i == CHOOSE j \in which : TRUE
       IN  results[i].tokenUsage[field] + SumOver(results, which \ { i }, field)

\* C31: the merged tokenUsage is present if and only if at least one batch
\* reported token usage, and then its inputTokens and outputTokens are the
\* sums of these fields over the batches that reported usage.
C31_TokenUsageSummed ==
  mergeCall.state = "returned" =>
    LET reported == Reported(mergeCall.results)
        usage == mergeCall.result.tokenUsage
    IN  /\ usage.present <=> reported # {}
        /\ usage.present =>
             /\ usage.inputTokens = SumOver(mergeCall.results, reported, "inputTokens")
             /\ usage.outputTokens = SumOver(mergeCall.results, reported, "outputTokens")

\* C31 auxiliary: the same with "at least one batch reported token usage"
\* read as "the input tokens of the reporting batches sum to more than zero".
C31_TokenUsageWhenInputCounted ==
  mergeCall.state = "returned" =>
    LET reported == Reported(mergeCall.results)
        usage == mergeCall.result.tokenUsage
    IN  /\ usage.present <=> SumOver(mergeCall.results, reported, "inputTokens") > 0
        /\ usage.present =>
             /\ usage.inputTokens = SumOver(mergeCall.results, reported, "inputTokens")
             /\ usage.outputTokens = SumOver(mergeCall.results, reported, "outputTokens")

\* ---------------------------------------------------------------------------
\* Properties of failed indexing calls
\* ---------------------------------------------------------------------------

\* The indexing call of slot s returned success false.
IndexReportedFailure(s) ==
  /\ ops[s].kind \in IndexKinds
  /\ ops[s].pc = "done"
  /\ ops[s].status = RETURNED
  /\ ~ops[s].result.success

\* C32: when an indexing call has returned success false, the registry holds
\* no VideoRecord written by that call, so that its sourceUri is not reported
\* as indexed on its account and can be indexed again.
C32_FailureLeavesNoVideoRecord ==
  \A s \in Slots :
    IndexReportedFailure(s) => \A v \in videos : v.id # ops[s].videoId

\* C32 auxiliary: a call that returned success false before its insertVideo
\* was carried out left no VideoRecord; here the call did not get past the
\* step at which the provider is found not ready.
C32_FailureBeforeInsertLeavesNothing ==
  \A s \in Slots :
    (IndexReportedFailure(s) /\ ~embeddingReady) => \A v \in videos : v.id # ops[s].videoId

\* ---------------------------------------------------------------------------
\* Properties of the sources of an answer
\* ---------------------------------------------------------------------------

\* C33: every source in the response of advancedChat for videoId v is a
\* record whose videoId is v, whichever search of the cascade produced the
\* results.
C33_SourcesOfRequestedVideo ==
  \A s \in Chats({ "advancedChat" }) :
    ops[s].pc = "done" =>
      \A src \in ops[s].sources : src.videoId = ops[s].videoId

\* C33 auxiliary: the same for requests whose videoId is interpolated into
\* the filters as one quoted literal.
C33_SourcesOfPlainId ==
  \A s \in Chats({ "advancedChat" }) :
    (ops[s].pc = "done" /\ ops[s].videoId # AnyRowId) =>
      \A src \in ops[s].sources : src.videoId = ops[s].videoId

\* C33 auxiliary witness: an answer for a plain id carries sources while
\* rows of another video are stored.
C33_PlainIdAnswered ==
  \E s \in Chats({ "advancedChat" }) :
    /\ ops[s].pc = "done" /\ ops[s].videoId # AnyRowId
    /\ ops[s].sources # {}
    /\ \E r \in enhancedFrames \cup legacyFrames : r.videoId # ops[s].videoId

\* ---------------------------------------------------------------------------
\* Properties of advancedChat by caller-supplied id
\* ---------------------------------------------------------------------------

\* C7, for every id a caller can write: when getVideo answers an advancedChat
\* whose videoId no VideoRecord carries, the request ends there with 404,
\* before any embedding, search or generation call.
C7_NoRecordNotFound ==
  [][\A s \in Slots :
       ( /\ ops[s].kind = "advancedChat"
         /\ ops[s].pc = "getVideo"
         /\ ops'[s] # ops[s]
         /\ \A v \in videos : v.id # ops[s].videoId )
       => /\ ops'[s].pc = "done"
          /\ ops'[s].status = NOT_FOUND
    ]_vars

-----------------------------------------------------------------------------
(* Chat sessions: ChatService (Gemini) and OpenAIChatService *)

\* The two services keep their sessions in a Map keyed by a fresh uuid.  A
\* call holds the session OBJECT it read from the map across its await, so
\* the objects are kept apart from the map's key set: 'objs' are the
\* objects, 'sessions' the keys the map holds, 'chatInstances' the keys of
\* the Gemini service's second map.

ChatProviders == { "gemini", "openai" }

MaxSessions == 1

\* the calls made on the service over its life
MaxChatCalls == 4

CallSlots == { 1, 2, 3 }

\* a session id no start-session call ever produced
UnknownSession == 0

SessionIds == 1..MaxSessions

NoSession == [messages |-> << >>, conversationHistory |-> << >>, youtube |-> FALSE]

ChatIdle == [kind |-> "idle", pc |-> "idle"]

UserMessage(n) == [role |-> "user", call |-> n]

ModelMessage(n) == [role |-> "model", call |-> n]

SystemEntry == [role |-> "system", call |-> 0]

UserEntry(n) == [role |-> "user", call |-> n]

AssistantEntry(n) == [role |-> "assistant", call |-> n]

\* Array.prototype.pop: removes the last element, whatever it is
Pop(s) == IF Len(s) = 0 THEN s ELSE SubSeq(s, 1, Len(s) - 1)

InitSessions ==
  /\ StoreIdle
  /\ classifyCall = NoCall /\ extractCall = NoCall /\ mergeCall = NoCall
  /\ batchRun = NoCall /\ searchCall = NoCall /\ embedCall = NoCall
  /\ waitCall = NoCall /\ uploadReq = NoCall
  /\ globalCall = NoCall /\ buildCall = NoCall
  /\ retryCall = NoCall
  /\ resolveCall = NoCall
  /\ \E p \in ChatProviders :
       chatService = [ state |-> "serving", provider |-> p,
                       sessions |-> {}, chatInstances |-> {},
                       objs |-> [ id \in SessionIds |-> NoSession ],
                       nextSession |-> 1, nextCall |-> 1,
                       calls |-> [ c \in CallSlots |-> ChatIdle ],
                       last |-> ChatIdle, ended |-> {}, endedStarted |-> {},
                       endedQuiet |-> {} ]

\* the calls that hold session 'sid' across an await
InFlightOn(sid) ==
  { c \in CallSlots : /\ chatService.calls[c].pc \in { "awaiting", "deleting" }
                      /\ chatService.calls[c].sessionId = sid }

\* a new call takes the first free slot
CanCall(c) ==
  /\ chatService.state = "serving"
  /\ chatService.calls[c].pc = "idle"
  /\ \A b \in CallSlots : b < c => chatService.calls[b].pc # "idle"
  /\ chatService.nextCall <= MaxChatCalls

\* ghost: every call in flight on 'sid' has now shared the session with
\* another call
Overlap(calls, sid) ==
  [ c \in CallSlots |->
      IF calls[c].pc \in { "awaiting", "deleting" } /\ calls[c].sessionId = sid
        THEN [ calls[c] EXCEPT !.overlapped = TRUE ]
        ELSE calls[c] ]

NewCall(c, kind, pc, sid) ==
  [ kind |-> kind, pc |-> pc, sessionId |-> sid, id |-> chatService.nextCall,
    overlapped |-> (InFlightOn(sid) # {}), status |-> RETURNED ]

\* startSessionWithFile / startSessionWithYouTube up to the await of the
\* first model call.  Gemini registers the empty session and its chat first;
\* OpenAI only draws the id.
StartSession(c) ==
  /\ CanCall(c)
  /\ chatService.nextSession <= MaxSessions
  /\ LET id == chatService.nextSession IN
     \E yt \in BOOLEAN :
       /\ chatService.provider = "openai" => ~ yt
       /\ chatService' =
            [ chatService EXCEPT
                !.nextSession = id + 1,
                !.nextCall = @ + 1,
                !.objs[id] = [ NoSession EXCEPT !.youtube = yt ],
                !.sessions = IF chatService.provider = "gemini" THEN @ \cup { id } ELSE @,
                !.chatInstances = IF chatService.provider = "gemini" THEN @ \cup { id } ELSE @,
                !.calls[c] = NewCall(c, "start", "awaiting", id) ]
  /\ UNCHANGED << storeVars, classifyCall, extractCall, mergeCall, batchRun, searchCall, embedCall, waitCall, uploadReq, globalCall, buildCall, retryCall, resolveCall >>

\* the first model call settled
StartResponded(c) ==
  /\ chatService.state = "serving"
  /\ chatService.calls[c].kind = "start"
  /\ chatService.calls[c].pc = "awaiting"
  /\ LET call == chatService.calls[c]
         id == call.sessionId
         obj == chatService.objs[id]
     IN
     \E ok \in BOOLEAN :
       chatService' =
         IF chatService.provider = "gemini"
           THEN IF ok
                  THEN [ chatService EXCEPT
                           !.objs[id].messages = obj.messages \o << UserMessage(call.id), ModelMessage(call.id) >>,
                           !.sessions = @ \cup { id },
                           !.last = [ call EXCEPT !.pc = "done" ],
                           !.calls[c] = ChatIdle ]
                  ELSE [ chatService EXCEPT
                           !.sessions = @ \ { id },
                           !.chatInstances = @ \ { id },
                           !.last = [ call EXCEPT !.pc = "done", !.status = Raised ],
                           !.calls[c] = ChatIdle ]
           ELSE IF ok
                  THEN [ chatService EXCEPT
                           !.objs[id].messages = << UserMessage(call.id), ModelMessage(call.id) >>,
                           !.objs[id].conversationHistory =
                              << SystemEntry, UserEntry(call.id), AssistantEntry(call.id) >>,
                           !.sessions = @ \cup { id },
                           !.last = [ call EXCEPT !.pc = "done" ],
                           !.calls[c] = ChatIdle ]
                  ELSE [ chatService EXCEPT
                           !.last = [ call EXCEPT !.pc = "done", !.status = Raised ],
                           !.calls[c] = ChatIdle ]
  /\ UNCHANGED << storeVars, classifyCall, extractCall, mergeCall, batchRun, searchCall, embedCall, waitCall, uploadReq, globalCall, buildCall, retryCall, resolveCall >>

\* the session ids a caller can name: the ones drawn so far and one that
\* never was a session
KnownIds == { UnknownSession } \cup (1..(chatService.nextSession - 1))

\* sendMessage found the session in the map(s)
SessionFound(sid) ==
  /\ sid \in chatService.sessions
  /\ chatService.provider = "gemini" => sid \in chatService.chatInstances

\* sendMessage, had it pushed the user message to the session's messages
\* before the model call, the way the OpenAI service treats
\* conversationHistory
SendStarted_PushesUser(c) ==
  /\ CanCall(c)
  /\ \E sid \in KnownIds :
       chatService' =
         IF ~ SessionFound(sid)
           THEN [ chatService EXCEPT
                    !.nextCall = @ + 1,
                    !.last = [ NewCall(c, "send", "done", sid) EXCEPT !.status = NOT_FOUND ] ]
           ELSE [ chatService EXCEPT
                    !.nextCall = @ + 1,
                    !.objs[sid].messages = Append(@, UserMessage(chatService.nextCall)),
                    !.calls = [ Overlap(chatService.calls, sid) EXCEPT
                                  ![c] = NewCall(c, "send", "awaiting", sid) ] ]
  /\ UNCHANGED << storeVars, classifyCall, extractCall, mergeCall, batchRun, searchCall, embedCall, waitCall, uploadReq, globalCall, buildCall, retryCall, resolveCall >>

\* sendMessage up to its await: 404 without the session; the OpenAI service
\* pushes the user message to conversationHistory before the model call.
SendStarted(c) ==
  /\ CanCall(c)
  /\ \E sid \in KnownIds :
       chatService' =
         IF ~ SessionFound(sid)
           THEN [ chatService EXCEPT
                    !.nextCall = @ + 1,
                    !.last = [ NewCall(c, "send", "done", sid) EXCEPT !.status = NOT_FOUND ] ]
           ELSE [ chatService EXCEPT
                    !.nextCall = @ + 1,
                    !.objs[sid].conversationHistory =
                       IF chatService.provider = "openai"
                         THEN Append(@, UserEntry(chatService.nextCall)) ELSE @,
                    !.calls = [ Overlap(chatService.calls, sid) EXCEPT
                                  ![c] = NewCall(c, "send", "awaiting", sid) ] ]
  /\ UNCHANGED << storeVars, classifyCall, extractCall, mergeCall, batchRun, searchCall, embedCall, waitCall, uploadReq, globalCall, buildCall, retryCall, resolveCall >>

\* the model call of sendMessage settled: on success the turn is pushed to
\* the session object and the object is put back under its id; on failure
\* the OpenAI service pops conversationHistory.
SendResponded(c) ==
  /\ chatService.state = "serving"
  /\ chatService.calls[c].kind = "send"
  /\ chatService.calls[c].pc = "awaiting"
  /\ LET call == chatService.calls[c]
         sid == call.sessionId
         obj == chatService.objs[sid]
     IN
     \E ok \in BOOLEAN :
       chatService' =
         IF ok
           THEN [ chatService EXCEPT
                    !.objs[sid].conversationHistory =
                       IF chatService.provider = "openai"
                         THEN Append(@, AssistantEntry(call.id)) ELSE @,
                    !.objs[sid].messages = obj.messages \o << UserMessage(call.id), ModelMessage(call.id) >>,
                    !.sessions = @ \cup { sid },
                    !.last = [ call EXCEPT !.pc = "done" ],
                    !.calls[c] = ChatIdle ]
           ELSE [ chatService EXCEPT
                    !.objs[sid].conversationHistory =
                       IF chatService.provider = "openai" THEN Pop(@) ELSE @,
                    !.last = [ call EXCEPT !.pc = "done", !.status = Raised ],
                    !.calls[c] = ChatIdle ]
  /\ UNCHANGED << storeVars, classifyCall, extractCall, mergeCall, batchRun, searchCall, embedCall, waitCall, uploadReq, globalCall, buildCall, retryCall, resolveCall >>

\* endSession awaits deleteFile when the map holds the session and it has an
\* uploaded file (Gemini: not a YouTube one)
EndAwaitsDelete(sid) ==
  /\ sid \in chatService.sessions
  /\ chatService.provider = "gemini" => ~ chatService.objs[sid].youtube

\* a start-session call is in flight that drew 'sid'
StartingOn(sid) ==
  \E b \in CallSlots : /\ chatService.calls[b].kind = "start"
                       /\ chatService.calls[b].pc = "awaiting"
                       /\ chatService.calls[b].sessionId = sid

\* endSession finished: both maps drop the id.  Ghosts: 'ended' are the
\* ids an endSession completed for, 'endedStarted' those of them that were
\* in the map until then and whose start-session call had returned,
\* 'endedQuiet' those no call held at that moment.
Ended(svc, c, sid) ==
  [ svc EXCEPT
      !.sessions = @ \ { sid },
      !.chatInstances = @ \ { sid },
      !.ended = @ \cup { sid },
      !.endedStarted = IF sid \in chatService.sessions /\ ~ StartingOn(sid)
                         THEN @ \cup { sid } ELSE @,
      !.endedQuiet = IF InFlightOn(sid) \ { c } = {} THEN @ \cup { sid } ELSE @ \ { sid },
      !.last = [ svc.calls[c] EXCEPT !.pc = "done" ],
      !.calls[c] = ChatIdle ]

EndStarted(c) ==
  /\ CanCall(c)
  /\ \E sid \in KnownIds :
       LET started == [ chatService EXCEPT
                          !.nextCall = @ + 1,
                          !.calls = [ Overlap(chatService.calls, sid) EXCEPT
                                        ![c] = NewCall(c, "end", "deleting", sid) ] ]
       IN chatService' = IF EndAwaitsDelete(sid) THEN started ELSE Ended(started, c, sid)
  /\ UNCHANGED << storeVars, classifyCall, extractCall, mergeCall, batchRun, searchCall, embedCall, waitCall, uploadReq, globalCall, buildCall, retryCall, resolveCall >>

\* deleteFile settled; a rejection is caught and logged
EndDeleted(c) ==
  /\ chatService.state = "serving"
  /\ chatService.calls[c].kind = "end"
  /\ chatService.calls[c].pc = "deleting"
  /\ chatService' = Ended(chatService, c, chatService.calls[c].sessionId)
  /\ UNCHANGED << storeVars, classifyCall, extractCall, mergeCall, batchRun, searchCall, embedCall, waitCall, uploadReq, globalCall, buildCall, retryCall, resolveCall >>

NextSessions ==
  \/ \E c \in CallSlots : StartSession(c)
  \/ \E c \in CallSlots : StartResponded(c)
  \/ \E c \in CallSlots : SendStarted(c)
  \/ \E c \in CallSlots : SendResponded(c)
  \/ \E c \in CallSlots : EndStarted(c)
  \/ \E c \in CallSlots : EndDeleted(c)

SpecSessions == InitSessions /\ [][NextSessions]_vars

\* ---------------------------------------------------------------------------
\* Properties of the chat sessions
\* ---------------------------------------------------------------------------

StartInProgress ==
  \E c \in CallSlots : /\ chatService.calls[c].kind = "start"
                       /\ chatService.calls[c].pc = "awaiting"

\* C34: a session whose endSession has completed is in the map no more
\* (getSession undefined, listSessions without it), whatever was in flight;
\* and the Gemini service's two maps hold the same keys whenever no
\* start-session call is in progress.
C34_EndedSessionNeverReappears ==
  /\ \A sid \in chatService.ended : sid \notin chatService.sessions
  /\ (chatService.provider = "gemini" /\ ~ StartInProgress)
       => chatService.sessions = chatService.chatInstances

\* C34, first part, for the sessions endSession removed from the map after
\* their start-session call had returned: the session is in the map no more.
C34_EndedStartedSessionNeverReappears ==
  \A sid \in chatService.endedStarted : sid \notin chatService.sessions

\* C34, when no call held the session while endSession completed: the
\* session stays out of the map.
C34_EndedAloneNeverReappears ==
  \A sid \in chatService.endedQuiet : sid \notin chatService.sessions

\* an endSession completed on a session that had been started, with nothing
\* else in flight on it
C34_EndedAlone ==
  /\ chatService.last.kind = "end"
  /\ chatService.last.sessionId \in chatService.endedQuiet
  /\ chatService.last.sessionId # UnknownSession
  /\ chatService.objs[chatService.last.sessionId].messages # << >>

\* the sendMessage in slot c fails in this step
SendFails(c) ==
  /\ chatService.calls[c].kind = "send"
  /\ chatService.calls[c].pc = "awaiting"
  /\ chatService'.calls[c].pc = "idle"
  /\ chatService'.last.status = Raised

\* conversationHistory had call n never been made
HistoryWithout(h, n) ==
  LET Others(m) == m.call # n IN SelectSeq(h, Others)

\* C35: a failed OpenAI sendMessage leaves conversationHistory as if the
\* call had never been made, also with other sendMessage calls in flight on
\* the session.
C35_FailedSendRollsBackOwnMessage ==
  [][\A c \in CallSlots :
       (chatService.provider = "openai" /\ SendFails(c)) =>
          LET sid == chatService.calls[c].sessionId IN
          chatService'.objs[sid].conversationHistory =
            HistoryWithout(chatService.objs[sid].conversationHistory, chatService.calls[c].id)
    ]_vars

\* C35, for a call that shared the session with no other call while it was
\* in flight: the pop removes the call's own user message.
C35_FailedSendAloneRollsBack ==
  [][\A c \in CallSlots :
       (chatService.provider = "openai" /\ SendFails(c) /\ ~ chatService.calls[c].overlapped) =>
          LET sid == chatService.calls[c].sessionId IN
          chatService'.objs[sid].conversationHistory =
            HistoryWithout(chatService.objs[sid].conversationHistory, chatService.calls[c].id)
    ]_vars

\* an OpenAI sendMessage has failed with nothing else in flight on its session
C35_FailedAlone ==
  /\ chatService.provider = "openai"
  /\ chatService.last.kind = "send"
  /\ chatService.last.status = Raised
  /\ ~ chatService.last.overlapped

\* even length, user and model in turn, user first
Alternates(ms) ==
  /\ Len(ms) % 2 = 0
  /\ \A i \in 1..Len(ms) : ms[i].role = (IF i % 2 = 1 THEN "user" ELSE "model")

MessagesOf(svc) == [ sid \in SessionIds |-> svc.objs[sid].messages ]

\* a sendMessage settles in this step
SendSettles ==
  /\ chatService'.last # chatService.last
  /\ chatService'.last.kind = "send"

\* what a settling sendMessage may do to the messages lists
TurnAppended ==
  LET call == chatService'.last IN
  IF call.status = RETURNED
    THEN MessagesOf(chatService') =
           [ MessagesOf(chatService) EXCEPT
               ![call.sessionId] = @ \o << UserMessage(call.id), ModelMessage(call.id) >> ]
    ELSE MessagesOf(chatService') = MessagesOf(chatService)

\* C36: in both services the messages of every session have even length and
\* alternate user, model from a user message on, in every interleaving of
\* the calls; a sendMessage that succeeds appends its user message and its
\* model message, one that fails appends nothing.
C36_MessagesAlternate ==
  /\ [] (\A sid \in SessionIds : Alternates(chatService.objs[sid].messages))
  /\ [][SendSettles => TurnAppended]_vars

\* a sendMessage succeeded that shared its session with another call in
\* flight, on a session that already had its first turn
C36_Witness ==
  /\ chatService.last.kind = "send"
  /\ chatService.last.status = RETURNED
  /\ chatService.last.overlapped
  /\ Len(chatService.objs[chatService.last.sessionId].messages) >= 4

-----------------------------------------------------------------------------
(* Retries of a provider call: VideoAnalyzeService.executeWithRetry *)

\* every caller passes maxRetries 3 (the default as well); smaller positive
\* values are checked along
MaxRetries == 3

\* an error without a status field
AbsentStatus == 0

ErrorStatuses == { AbsentStatus, 429, 500, 503, 599, 600 }

ErrorMessages == { "fetch failed", "Socket hang up", "quota exceeded" }

\* message.toLowerCase() includes one of the retryable patterns
MatchesRetryablePattern(message) == message \in { "fetch failed", "Socket hang up" }

Errors == [ message : ErrorMessages, status : ErrorStatuses ]

isRetryableError(error) ==
  IF MatchesRetryablePattern(error.message) THEN TRUE
  ELSE IF error.status >= 500 /\ error.status < 600 THEN TRUE
  ELSE IF error.status = 503 THEN TRUE
  ELSE FALSE

\* what one invocation of the operation settles with; a result carries the
\* number of the invocation that produced it
Resolved(n) == [ok |-> TRUE, value |-> n]

Rejected(error) == [ok |-> FALSE, error |-> error]

NoOutcome == [ok |-> FALSE, error |-> [message |-> "", status |-> AbsentStatus]]

\* the first invocation of the operation is in flight
InitRetry ==
  /\ StoreIdle
  /\ classifyCall = NoCall /\ extractCall = NoCall /\ mergeCall = NoCall
  /\ batchRun = NoCall /\ searchCall = NoCall /\ embedCall = NoCall
  /\ waitCall = NoCall /\ uploadReq = NoCall /\ globalCall = NoCall
  /\ buildCall = NoCall /\ chatService = NoCall
  /\ resolveCall = NoCall
  /\ \E n \in 1..MaxRetries :
       retryCall = [ state |-> "called", maxRetries |-> n, attempt |-> 1,
                     pc |-> "calling", log |-> << >>, result |-> NoOutcome ]

\* the catch block, had it retried every error
RetryCaught_RetriesAll(call, error) ==
  IF call.attempt = call.maxRetries
    THEN [ call EXCEPT !.pc = "thrown", !.result = Rejected(error) ]
    ELSE [ call EXCEPT !.pc = "delaying" ]

\* the catch block: rethrow what is not retryable and the failure of the
\* last attempt, otherwise back off
RetryCaught(call, error) ==
  IF ~ isRetryableError(error) \/ call.attempt = call.maxRetries
    THEN [ call EXCEPT !.pc = "thrown", !.result = Rejected(error) ]
    ELSE [ call EXCEPT !.pc = "delaying" ]

\* the invocation in flight settles
RetrySettled ==
  /\ retryCall.state = "called"
  /\ retryCall.pc = "calling"
  /\ \E outcome \in { Resolved(retryCall.attempt) } \cup { Rejected(e) : e \in Errors } :
       LET logged == [ retryCall EXCEPT !.log = Append(@, outcome) ] IN
       retryCall' = IF outcome.ok
                      THEN [ logged EXCEPT !.pc = "returned", !.result = outcome ]
                      ELSE RetryCaught(logged, outcome.error)
  /\ UNCHANGED << storeVars, classifyCall, extractCall, mergeCall, batchRun, searchCall, embedCall, waitCall, uploadReq, globalCall, buildCall, chatService, resolveCall >>

\* the back-off delay elapsed: next turn of the loop, or 'throw lastError'
\* below it
RetryDelayed ==
  /\ retryCall.state = "called"
  /\ retryCall.pc = "delaying"
  /\ retryCall' =
       IF retryCall.attempt + 1 <= retryCall.maxRetries
         THEN [ retryCall EXCEPT !.attempt = @ + 1, !.pc = "calling" ]
         ELSE [ retryCall EXCEPT !.attempt = @ + 1, !.pc = "thrown",
                                 !.result = retryCall.log[Len(retryCall.log)] ]
  /\ UNCHANGED << storeVars, classifyCall, extractCall, mergeCall, batchRun, searchCall, embedCall, waitCall, uploadReq, globalCall, buildCall, chatService, resolveCall >>

NextRetry ==
  \/ RetrySettled
  \/ RetryDelayed

SpecRetry == InitRetry /\ [][NextRetry]_vars

\* an invocation in flight settles, a timer set fires
SpecRetryFair == SpecRetry /\ WF_vars(NextRetry)

\* ---------------------------------------------------------------------------
\* Properties of executeWithRetry
\* ---------------------------------------------------------------------------

RetryEnded == retryCall.pc \in { "returned", "thrown" }

\* the operation was invoked once per logged outcome and once more while
\* an invocation is in flight
Invocations == Len(retryCall.log) + (IF retryCall.pc = "calling" THEN 1 ELSE 0)

\* every invocation but the last one made failed with a retryable error
EarlierAllRetryable ==
  \A i \in 1..(Invocations - 1) :
    /\ ~ retryCall.log[i].ok
    /\ isRetryableError(retryCall.log[i].error)

RetryOutcomeRight ==
  /\ Invocations <= retryCall.maxRetries
  /\ EarlierAllRetryable
  /\ retryCall.pc = "returned" =>
       /\ retryCall.log[Len(retryCall.log)].ok
       /\ retryCall.result = retryCall.log[Len(retryCall.log)]
  /\ retryCall.pc = "thrown" =>
       LET last == retryCall.log[Len(retryCall.log)] IN
       /\ ~ last.ok
       /\ retryCall.result = last
       /\ ~ isRetryableError(last.error) \/ Len(retryCall.log) = retryCall.maxRetries
  /\ retryCall.pc = "delaying" =>
       LET last == retryCall.log[Len(retryCall.log)] IN
       /\ ~ last.ok
       /\ isRetryableError(last.error)
       /\ Len(retryCall.log) < retryCall.maxRetries

\* C37: executeWithRetry ends, after at most maxRetries invocations: it
\* returns the result of the first invocation that succeeds and invokes
\* nothing after it, rethrows the first error that is not retryable at once,
\* and rethrows the last error after maxRetries retryable failures in a row.
C37_ExecuteWithRetryTerminates ==
  /\ [] RetryOutcomeRight
  /\ <> RetryEnded

\* the last error was rethrown after maxRetries retryable failures, with
\* more than one attempt allowed
C37_Witness ==
  /\ retryCall.pc = "thrown"
  /\ retryCall.maxRetries > 1
  /\ Len(retryCall.log) = retryCall.maxRetries
  /\ isRetryableError(retryCall.result.error)

-----------------------------------------------------------------------------
(* Provider selection: AIProviderFactory.resolveProvider *)

GEMINI == "gemini"

OPENAI == "openai"

SERVICE_UNAVAILABLE == 503

\* no provider: an absent or empty 'provider' field, and null
NoProvider == ""

\* what a request can carry in its 'provider' field
RequestedProviders ==
  { NoProvider, "gemini", "Gemini", "GEMINI", "openai", "OpenAI", "OPENAI",
    "openai ", "claude", "AZURE" }

\* the AI_PROVIDER setting; 'gemini' when unset
ConfiguredProviders == { "gemini", "openai", "OpenAI", "azure" }

\* String.prototype.toLowerCase on the strings above
ToLowerCase(s) ==
  CASE s \in { "Gemini", "GEMINI" } -> "gemini"
    [] s \in { "OpenAI", "OPENAI" } -> "openai"
    [] s = "AZURE" -> "azure"
    [] OTHER -> s

\* the constructor's choice of defaultProvider
DefaultProvider(configured) == IF configured = "openai" THEN OPENAI ELSE GEMINI

normalizeProvider(provider) ==
  IF provider = NoProvider THEN NoProvider
  ELSE LET normalized == ToLowerCase(provider) IN
       IF normalized = "gemini" THEN GEMINI
       ELSE IF normalized = "openai" THEN OPENAI
       ELSE NoProvider

\* isProviderAvailable, had it taken every provider for available
isProviderAvailable_Always(provider, isConfigured) == TRUE

\* GeminiService.getClient returns its client field and throws nothing, so
\* the try block always returns true; OpenAIService.isAvailable is the
\* isConfigured flag set when OPENAI_API_KEY is present.
isProviderAvailable(provider, isConfigured) ==
  IF provider = GEMINI THEN TRUE
  ELSE IF provider = OPENAI THEN isConfigured
  ELSE FALSE

Selected(provider) == [status |-> RETURNED, provider |-> provider]

NoneAvailable == [status |-> SERVICE_UNAVAILABLE, provider |-> NoProvider]

resolveProvider(requestedProvider, defaultProvider, isConfigured) ==
  LET provider == normalizeProvider(requestedProvider)
      fallback == IF defaultProvider = GEMINI THEN OPENAI ELSE GEMINI
  IN
  IF provider # NoProvider /\ isProviderAvailable(provider, isConfigured)
    THEN Selected(provider)
  ELSE IF isProviderAvailable(defaultProvider, isConfigured)
    THEN Selected(defaultProvider)
  ELSE IF isProviderAvailable(fallback, isConfigured)
    THEN Selected(fallback)
  ELSE NoneAvailable

\* the factory is constructed and the services are initialised; a request
\* names a provider
InitResolve ==
  /\ StoreIdle
  /\ classifyCall = NoCall /\ extractCall = NoCall /\ mergeCall = NoCall
  /\ batchRun = NoCall /\ searchCall = NoCall /\ embedCall = NoCall
  /\ waitCall = NoCall /\ uploadReq = NoCall /\ globalCall = NoCall
  /\ buildCall = NoCall /\ chatService = NoCall /\ retryCall = NoCall
  /\ \E requested \in RequestedProviders, configured \in ConfiguredProviders,
        isConfigured \in BOOLEAN :
       resolveCall = [ state |-> "called", requestedProvider |-> requested,
                       defaultProvider |-> DefaultProvider(configured),
                       configured |-> configured, isConfigured |-> isConfigured,
                       result |-> NoneAvailable ]

ResolveReturned ==
  /\ resolveCall.state = "called"
  /\ resolveCall' =
       [ resolveCall EXCEPT
           !.state = "resolved",
           !.result = resolveProvider(resolveCall.requestedProvider,
                                      resolveCall.defaultProvider,
                                      resolveCall.isConfigured) ]
  /\ UNCHANGED << storeVars, classifyCall, extractCall, mergeCall, batchRun, searchCall, embedCall, waitCall, uploadReq, globalCall, buildCall, chatService, retryCall >>

NextResolve ==
  \/ ResolveReturned

SpecResolve == InitResolve /\ [][NextResolve]_vars

\* ---------------------------------------------------------------------------
\* Properties of resolveProvider
\* ---------------------------------------------------------------------------

\* the provider's client exists: Gemini's always does once the application
\* has started, OpenAI's when its key was configured
ClientReady(provider) ==
  \/ provider = GEMINI
  \/ provider = OPENAI /\ resolveCall.isConfigured

\* the provider the request names, whatever the letter case
Named(provider) ==
  \/ ToLowerCase(resolveCall.requestedProvider) = provider

====
